---------------------------- MODULE Spec2Model ----------------------------
(***************************************************************************)
(* A model of lipaugus/releasedates: the resilient fetcher, the bounded    *)
(* concurrency executor (asyncMapLimit) and the list-release request       *)
(* handler.  Array indices are 0-based as in the JavaScript source.        *)
(***************************************************************************)
EXTENDS Integers, Sequences, FiniteSets, TLC

(***************************************************************************)
(* Bounds of the model.                                                    *)
(***************************************************************************)
MaxInputs == 3

MaxLimit == 3

MaxAttemptsArg == 3

MaxPages == 3

InputValues == {"a", "b"}

Min(a, b) == IF a <= b THEN a ELSE b

SeqsUpTo(S, n) == UNION {[1..k -> S] : k \in 0..n}

VARIABLES
  \* ---- asyncMapLimit (one call) ----
  mapState,   \* "idle" | "spawning" | "awaiting" | "returned"
  inputs,     \* the inputs array
  limit,      \* the limit argument
  results,    \* the results array: [0..len-1 -> record], Hole where never assigned
  idx,        \* the shared counter `idx`
  spawned,    \* number of worker() calls made so far (workers.length)
  wst,        \* per worker: its position, its local `i`, the settled mapper outcome
  \* ---- history of the call (observation only, never read by an action guard) ----
  claims,     \* claims[i]: how many times index i was claimed (mapper started for it)
  claimedBy,  \* claimedBy[i]: the worker that claimed index i (0: nobody yet)
  rejected    \* indices whose mapper invocation rejected, with what was thrown

mapVars == <<mapState, inputs, limit, results, idx, spawned, wst, claims, claimedBy, rejected>>

VARIABLES
  \* ---- one call of the resilient fetcher ----
  fvariant,     \* which fetcher: "raw" | "serverless" | "express"
  furl,         \* the url argument
  fproxy,       \* SCRAPER_PROXY configured (read by the raw fetcher only)
  maxAttempts,  \* the maxAttempts / max / maxRetries argument
  attempt,      \* the local `attempt`
  fpc,          \* "called" | "request" | "sleeping" | "returned" | "failed"
  fbackoff,     \* the sleep in progress: its deterministic part and jitter bound
  ferror,       \* the Error the call threw (NoError while it has not)
  \* ---- history of the call ----
  outcomes,     \* how each attempt made so far ended (the pending one excluded)
  sleeps        \* number of backoff sleeps started

fetchVars == <<fvariant, furl, fproxy, maxAttempts, attempt, fpc, fbackoff, ferror, outcomes, sleeps>>

VARIABLES
  \* ---- one invocation of the list-release handler ----
  handler,        \* "api" (api/list-release.js) | "part001" | "express" (server/index.js)
  reqMethod,      \* req.method
  reqFields,      \* username, listname, country: "given" | "missing" (one is absent or
                  \* empty) | "blank" (all present, one of them only whitespace)
  excludePremieres, \* !!body.excludePremieres (read by api/list-release.js only)
  bearer,         \* TMDB_BEARER is set
  concurrency,    \* CONCURRENCY
  hpc,            \* "idle" | "received" | "firstPage" | "pageFetch" | "pageSleep"
                  \* | "resolving" | "responded"
  pageCount,      \* the local pageCount
  page,           \* the loop variable p
  slugs,          \* the Set `slugs`, in insertion order
  response,       \* the response sent (NoResponse while none was)
  \* ---- history of the invocation ----
  nList,          \* listing-page fetches issued
  nMeta,          \* metadata lookups issued
  failedPages     \* listing pages whose fetch failed

pipeVars == <<handler, reqMethod, reqFields, excludePremieres, bearer, concurrency, hpc, pageCount, page, slugs,
              response, nList, nMeta, failedPages>>

VARIABLES
  \* ---- calls of extractDatesFromJsonWithTypes on one metadata response ----
  djson,   \* the `json` argument
  dcall,   \* the last call made on it: its other arguments and what it returned
  \* ---- a call of results.sort(comparator) ----
  sarr,    \* the results array before the sort
  scall,   \* the handler whose comparator was used, and the array after the sort
  \* ---- calls of parseListPageForSlugs on one listing page ----
  phtml,   \* the `html` argument
  pcalls,  \* what the calls made on it so far returned, in order
  \* ---- a call of dateKey on the converted forms of two ISO dates ----
  kdates,  \* the two ISO dates
  kcall,   \* the handler whose dateKey was used, and the keys it returned
  \* ---- the page of the front end ----
  statusEl,        \* the status line: hidden or not, its text, its error colour
  resultsHidden,   \* resultsSection carries the class `hidden`
  tbody,           \* the rows of the results table
  submits          \* each submit so far: where its listener stands, in order

keyVars == <<kdates, kcall>>

frontVars == <<statusEl, resultsHidden, tbody, submits>>

fnVars == <<djson, dcall, sarr, scall, phtml, pcalls, keyVars, frontVars>>

vars == <<mapVars, fetchVars, pipeVars, fnVars>>

(***************************************************************************)
(* asyncMapLimit                                                           *)
(***************************************************************************)
Hole == [hole |-> TRUE]

Workers == 1..(IF MaxLimit > MaxInputs THEN MaxLimit ELSE MaxInputs)

Indices == 0..(Len(inputs) - 1)

\* What a mapper may throw: an Error object (with a message) or a bare value.
Thrown(x, i) == {[message |-> <<"failed", x, i>>], [raw |-> <<"thrown", x, i>>]}

\* String(err && (err.message || err))
ErrString(err) == IF "message" \in DOMAIN err THEN err.message ELSE err.raw

\* The abstract mapper's value for inputs[i]: mapper(inputs[i], i).
MapperValue(x, i) == [value |-> x, at |-> i]

NumWorkersIgnoringLimit(lim, len) == IF len = 0 THEN 1 ELSE len

\* Math.min(limit, inputs.length || 1)
NumWorkers(lim, len) == Min(lim, IF len = 0 THEN 1 ELSE len)

NextIdxNotAdvanced(n) == n

\* idx++ : the value the counter takes after a claim.
NextIdx(n) == n + 1

CatchRecordKeepsThrown(err) == err

\* catch (err) { results[i] = { error: String(...) } }
CatchRecord(err) == [error |-> ErrString(err)]

StoreIndexFromSharedCounter(w) == idx - 1

\* The index a resumed worker assigns to: its own local `i`.
StoreIndex(w) == wst[w].i

\* The object the item task of the handler starts from.
NewFilm(h, slug) ==
  IF h = "api"
    THEN [film_query |-> [t |-> "str", v |-> slug], film_name |-> [t |-> "null"],
          tmdb_id |-> [t |-> "null"],
          country_release |-> [t |-> "null"], country_release_type |-> [t |-> "null"],
          digital_release |-> [t |-> "null"], digital_release_type |-> [t |-> "null"]]
    ELSE [film_query |-> [t |-> "str", v |-> slug],
          film_name |-> IF h = "express" THEN [t |-> "str", v |-> slug] ELSE [t |-> "null"],
          tmdb_id |-> [t |-> "null"],
          country_release |-> [t |-> "null"], digital_release |-> [t |-> "null"]]

\* The mapper a claimed index is handed to: the abstract one, or the item task of
\* the handler, which starts by issuing the detail-page fetch.
MapperEntry(i) ==
  IF hpc = "resolving"
    THEN [pc |-> "detail", i |-> i, out |-> Hole, film |-> NewFilm(handler, inputs[i + 1])]
    ELSE [pc |-> "running", i |-> i, out |-> Hole, film |-> Hole]

UnbornWorker == [pc |-> "unborn", i |-> -1, out |-> Hole, film |-> Hole]

\* `const i = idx++; if (i >= inputs.length) return; ... mapper(inputs[i], i)`:
\* one synchronous step of worker w, up to the await of the mapper's promise.
Claim(w, st, rs) ==
  LET i == idx IN
  /\ idx' = NextIdx(idx)
  /\ results' = rs
  /\ IF i >= Len(inputs)
       THEN /\ wst' = [st EXCEPT ![w] = [pc |-> "exit", i |-> i, out |-> Hole, film |-> Hole]]
            /\ UNCHANGED <<claims, claimedBy>>
       ELSE /\ wst' = [st EXCEPT ![w] = MapperEntry(i)]
            /\ claims' = [claims EXCEPT ![i] = @ + 1]
            /\ claimedBy' = [claimedBy EXCEPT ![i] = w]

\* The call: `results = new Array(inputs.length); idx = 0; workers = []`.
MapCall(ins, lim) ==
  /\ mapState' = "spawning"
  /\ inputs' = ins
  /\ limit' = lim
  /\ results' = [i \in 0..(Len(ins) - 1) |-> Hole]
  /\ idx' = 0
  /\ spawned' = 0
  /\ wst' = [w \in Workers |-> UnbornWorker]
  /\ claims' = [i \in 0..(Len(ins) - 1) |-> 0]
  /\ claimedBy' = [i \in 0..(Len(ins) - 1) |-> 0]
  /\ rejected' = {}

\* `for (let i = 0; i < n; i++) workers.push(worker())`: one iteration; worker()
\* runs synchronously to its first await (or to its return).
Spawn ==
  /\ mapState = "spawning"
  /\ spawned < NumWorkers(limit, Len(inputs))
  /\ spawned' = spawned + 1
  /\ Claim(spawned + 1, wst, results)
  /\ UNCHANGED <<mapState, inputs, limit, rejected>>
  /\ UNCHANGED <<fetchVars, pipeVars>>
  /\ UNCHANGED fnVars

\* The loop ends; the caller suspends on `await Promise.all(workers)`.
SpawnDone ==
  /\ mapState = "spawning"
  /\ spawned >= NumWorkers(limit, Len(inputs))
  /\ mapState' = "awaiting"
  /\ UNCHANGED <<inputs, limit, results, idx, spawned, wst, claims, claimedBy, rejected>>
  /\ UNCHANGED <<fetchVars, pipeVars>>
  /\ UNCHANGED fnVars

\* The abstract mapper's promise for worker w resolves.
MapperResolve(w) ==
  /\ mapState = "awaiting"
  /\ wst[w].pc = "running"
  /\ wst' = [wst EXCEPT ![w].pc = "settled",
                        ![w].out = [ok |-> TRUE, val |-> MapperValue(inputs[wst[w].i + 1], wst[w].i)]]
  /\ UNCHANGED <<mapState, inputs, limit, results, idx, spawned, claims, claimedBy, rejected>>
  /\ UNCHANGED <<fetchVars, pipeVars>>
  /\ UNCHANGED fnVars

\* The abstract mapper's promise for worker w rejects.
MapperReject(w) ==
  /\ mapState = "awaiting"
  /\ wst[w].pc = "running"
  /\ \E err \in Thrown(inputs[wst[w].i + 1], wst[w].i) :
       /\ wst' = [wst EXCEPT ![w].pc = "settled", ![w].out = [ok |-> FALSE, val |-> err]]
       /\ rejected' = rejected \cup {[at |-> wst[w].i, err |-> err]}
  /\ UNCHANGED <<mapState, inputs, limit, results, idx, spawned, claims, claimedBy>>
  /\ UNCHANGED <<fetchVars, pipeVars>>
  /\ UNCHANGED fnVars

\* Worker w resumes after its await: the assignment to results[i] (or the catch
\* clause), then the next iteration of `while (true)`.
WorkerResume(w) ==
  /\ mapState = "awaiting"
  /\ wst[w].pc = "settled"
  /\ LET rec == IF wst[w].out.ok THEN wst[w].out.val ELSE CatchRecord(wst[w].out.val)
         at  == StoreIndex(w)
     IN Claim(w, wst, IF at \in DOMAIN results THEN [results EXCEPT ![at] = rec] ELSE results)
  /\ UNCHANGED <<mapState, inputs, limit, spawned, rejected>>
  /\ UNCHANGED <<fetchVars, pipeVars>>
  /\ UNCHANGED fnVars

WorkersNeverJoined == FALSE

\* Every promise handed to Promise.all has resolved.
AllWorkersExited == \A w \in 1..spawned : wst[w].pc = "exit"

\* Promise.all(workers) resolves; `return results`.
MapReturn ==
  /\ mapState = "awaiting"
  /\ AllWorkersExited
  /\ mapState' = "returned"
  /\ UNCHANGED <<inputs, limit, results, idx, spawned, wst, claims, claimedBy, rejected>>
  /\ UNCHANGED <<fetchVars, pipeVars>>
  /\ UNCHANGED fnVars

\* Mapper invocations started and not yet settled.
InFlight == Cardinality({w \in Workers : wst[w].pc = "running"})

(***************************************************************************)
(* Claims about asyncMapLimit (checked under SpecMap)                      *)
(***************************************************************************)
WasRejected(i) == \E r \in rejected : r.at = i

\* What position i must hold once its mapper invocation has settled.
ExpectedOutcome(i) ==
  IF WasRejected(i)
    THEN [error |-> ErrString((CHOOSE r \in rejected : r.at = i).err)]
    ELSE MapperValue(inputs[i + 1], i)

\* C1: the returned array has the length of inputs, and for every limit >= 1 and
\* every interleaving, position i holds the outcome of mapper(inputs[i]) - its
\* value or its error record - and of no other input.
C1_ResultsMatchInputs ==
  /\ DOMAIN results = Indices
  /\ \A i \in Indices : results[i] # Hole => results[i] = ExpectedOutcome(i)
  /\ (mapState = "returned" /\ limit >= 1) =>
        \A i \in Indices : results[i] = ExpectedOutcome(i)

\* Index 1 completed before index 0 (worker 2 went on to claim index 2), one
\* mapper failed, and the call has returned.
C1_Witness ==
  /\ mapState = "returned"
  /\ Len(inputs) = 3
  /\ limit = 2
  /\ claimedBy = [i \in 0..2 |-> IF i = 0 THEN 1 ELSE 2]
  /\ rejected # {}
  /\ \E i \in Indices : ~WasRejected(i)

\* C2: never more than min(limit, len(inputs)) mapper invocations are in flight,
\* and a worker that has stopped leaves no unclaimed input index behind.
C2_BoundedInFlight ==
  /\ InFlight <= Min(limit, Len(inputs))
  /\ \A w \in Workers : wst[w].pc = "exit" => idx >= Len(inputs)

\* Limit 2, three inputs: two mappers in flight, the third input already claimed.
C2_Witness ==
  /\ limit = 2
  /\ Len(inputs) = 3
  /\ InFlight = 2
  /\ idx = 3

\* C3: every index is claimed by exactly one worker exactly once: indices below
\* the counter have been claimed once, the others not at all, two live workers
\* never hold the same index, and at the return no index was skipped.
C3_ClaimedExactlyOnce ==
  /\ \A i \in Indices : claims[i] = (IF i < idx THEN 1 ELSE 0)
  /\ \A v, w \in Workers :
        (v # w /\ wst[v].pc \in {"running", "settled"} /\ wst[w].pc \in {"running", "settled"})
          => wst[v].i # wst[w].i
  /\ (mapState = "returned" /\ limit >= 1) => \A i \in Indices : claims[i] = 1

\* Three workers raced for three inputs and the call returned.
C3_Witness ==
  /\ mapState = "returned"
  /\ Len(inputs) = 3
  /\ limit = 3
  /\ \A i \in Indices : claimedBy[i] = i + 1

C4_State ==
  /\ \A i \in Indices :
        /\ WasRejected(i) /\ results[i] # Hole => DOMAIN results[i] = {"error"}
        /\ ~WasRejected(i) /\ results[i] # Hole => results[i] = MapperValue(inputs[i + 1], i)
  /\ mapState \in {"spawning", "awaiting", "returned"}
  /\ (mapState = "returned" /\ limit >= 1) => \A i \in Indices : results[i] # Hole

\* A worker whose mapper failed stores the error record and claims the next index.
C4_Step ==
  \A w \in Workers :
    (wst[w].pc = "settled" /\ ~wst[w].out.ok /\ wst'[w] # wst[w]) =>
      /\ results'[wst[w].i] = [error |-> ErrString(wst[w].out.val)]
      /\ wst'[w].i = idx
      /\ wst'[w].pc = (IF idx < Len(inputs) THEN "running" ELSE "exit")

\* C4: a failing mapper leaves a record carrying only an error message at its own
\* position, its worker goes on claiming indices, every other position holds its
\* own mapper's value, and the batch always returns a full array.
C4_FailureIsolated == []C4_State /\ [][C4_Step]_vars

\* Worker 1 failed on index 0, went on to index 1 and succeeded; the call returned.
C4_Witness ==
  /\ mapState = "returned"
  /\ Len(inputs) >= 2
  /\ limit = 1
  /\ WasRejected(0)
  /\ results[0] = ExpectedOutcome(0)
  /\ ~WasRejected(1)
  /\ claimedBy[1] = claimedBy[0]
  /\ results[1] = MapperValue(inputs[2], 1)

NoCall == [none |-> TRUE]

IdleDates ==
  /\ djson = NoCall
  /\ dcall = NoCall

IdleSort ==
  /\ sarr = <<>>
  /\ scall = NoCall

IdleParse ==
  /\ phtml = NoCall
  /\ pcalls = <<>>

IdleKey ==
  /\ kdates = NoCall
  /\ kcall = NoCall

HiddenStatus == [hidden |-> TRUE, text |-> "", isError |-> FALSE]

IdleFront ==
  /\ statusEl = HiddenStatus
  /\ resultsHidden = TRUE
  /\ tbody = <<>>
  /\ submits = <<>>

IdleFn ==
  /\ IdleDates
  /\ IdleSort
  /\ IdleParse
  /\ IdleKey
  /\ IdleFront

IdleFetch ==
  /\ fvariant = "raw"
  /\ furl = "none"
  /\ fproxy = FALSE
  /\ maxAttempts = 0
  /\ attempt = 0
  /\ fpc = "idle"
  /\ fbackoff = [ms |-> 0, jitterBelow |-> 0]
  /\ ferror = [none |-> TRUE]
  /\ outcomes = <<>>
  /\ sleeps = 0

NoResponse == [status |-> 0, body |-> [none |-> TRUE]]

IdlePipe ==
  /\ handler = "api"
  /\ reqMethod = "POST"
  /\ reqFields = "given"
  /\ excludePremieres = FALSE
  /\ bearer = FALSE
  /\ concurrency = 0
  /\ hpc = "idle"
  /\ pageCount = 0
  /\ page = 0
  /\ slugs = <<>>
  /\ response = NoResponse
  /\ nList = 0
  /\ nMeta = 0
  /\ failedPages = {}

InitMap ==
  /\ IdleFn
  /\ IdleFetch
  /\ IdlePipe
  /\ mapState = "spawning"
  /\ inputs \in SeqsUpTo(InputValues, MaxInputs)
  /\ limit \in 0..MaxLimit
  /\ results = [i \in 0..(Len(inputs) - 1) |-> Hole]
  /\ idx = 0
  /\ spawned = 0
  /\ wst = [w \in Workers |-> UnbornWorker]
  /\ claims = [i \in 0..(Len(inputs) - 1) |-> 0]
  /\ claimedBy = [i \in 0..(Len(inputs) - 1) |-> 0]
  /\ rejected = {}

NextMap ==
  \/ Spawn
  \/ SpawnDone
  \/ \E w \in Workers : MapperResolve(w)
  \/ \E w \in Workers : MapperReject(w)
  \/ \E w \in Workers : WorkerResume(w)
  \/ MapReturn

SpecMap == InitMap /\ [][NextMap]_vars

(***************************************************************************)
(* The resilient fetcher: fetchWithRetriesRaw (list-release.js) and the    *)
(* two fetchWithRetries (serverless handlers, Express server)              *)
(***************************************************************************)
FetchVariants == {"raw", "serverless", "express"}

Urls == {"https://letterboxd.com/u/list/l/", "https://api.themoviedb.org/3/movie/1/release_dates"}

\* Lengths of the response bodies of non-2xx answers.
BodyLens == {0, 250}

\* How one attempt can end: a response with a status, the timeout's abort, or a
\* network error.
Outcomes ==
  {[kind |-> "status", status |-> st] : st \in {200, 403, 429, 500}}
    \cup {[kind |-> "abort", status |-> 0], [kind |-> "network", status |-> 0]}

IsOk(o) == o.kind = "status" /\ o.status >= 200 /\ o.status <= 299

\* MAX_RETRIES of each file: the default of the attempts argument.
DefaultMaxAttempts(v) == IF v = "raw" THEN 4 ELSE 3

RECURSIVE Pow2(_)

\* 2 ** n
Pow2(n) == IF n <= 0 THEN 1 ELSE 2 * Pow2(n - 1)

NoError == [none |-> TRUE]

\* The error an attempt raises inside the try block.
AttemptError(v, url, proxy, o, bodyLen) ==
  CASE o.kind = "abort" -> [message |-> [text |-> "This operation was aborted"]]
    [] o.kind = "network" -> [message |-> [text |-> "fetch failed"]]
    [] o.kind = "status" /\ v = "raw" ->
         [message |-> [text |-> "HTTP for (proxy). Response snippet", status |-> o.status,
                       url |-> url, proxy |-> proxy, snippetLen |-> Min(200, bodyLen)],
          status |-> o.status]
    [] o.kind = "status" /\ v = "serverless" ->
         [message |-> [text |-> "HTTP for", status |-> o.status, url |-> url]]
    [] OTHER -> [message |-> [text |-> "HTTP", status |-> o.status]]

\* What the call throws when the attempts are exhausted.
FinalError(v, url, n, err) ==
  IF v = "express"
    THEN err
    ELSE [message |-> [text |-> "fetchWithRetries failed for after attempts", url |-> url,
                       attempts |-> n, cause |-> err.message],
          cause |-> err]

RateLimitRetryUncapped(v, o, n, max) == v = "raw" /\ o.kind = "status" /\ o.status \in {403, 429}

\* The 403/429 branch of fetchWithRetriesRaw: a retry from inside the try block.
RateLimitRetry(v, o, n, max) == v = "raw" /\ o.kind = "status" /\ o.status \in {403, 429} /\ n < max

ExhaustedOffByOne(n, max) == n > max

\* `if (attempt >= maxAttempts)` in the catch clause.
Exhausted(n, max) == n >= max

BackoffUncapped(v, rateLimited, n) ==
  CASE v = "raw" /\ rateLimited -> [ms |-> 300 * Pow2(n), jitterBelow |-> 200]
    [] v = "raw" -> [ms |-> 300 * Pow2(n), jitterBelow |-> 300]
    [] v = "serverless" -> [ms |-> 400 * Pow2(n), jitterBelow |-> 200]
    [] OTHER -> [ms |-> 500 * Pow2(n), jitterBelow |-> 300]

\* The sleep before the next attempt.
Backoff(v, rateLimited, n) ==
  CASE v = "raw" /\ rateLimited -> [ms |-> Min(4000, 300 * Pow2(n)), jitterBelow |-> 200]
    [] v = "raw" -> [ms |-> Min(8000, 300 * Pow2(n)), jitterBelow |-> 300]
    [] v = "serverless" -> [ms |-> Min(8000, 400 * Pow2(n)), jitterBelow |-> 200]
    [] OTHER -> [ms |-> Min(8000, 500 * Pow2(n)), jitterBelow |-> 300]

\* The host of a url the program builds.
HostOf(url) ==
  IF url = "https://api.themoviedb.org/3/movie/1/release_dates"
    THEN "api.themoviedb.org" ELSE "letterboxd.com"

\* The callers of the fetcher: tmdbReleaseDates passes
\* { headers: { Authorization: `Bearer ${bearer}` } }, fetchHtml passes no options.
OptsHaveAuthorization(url) == HostOf(url) = "api.themoviedb.org"

\* The request of one attempt: fetch(targetUrl, { ...opts, headers }). The raw
\* fetcher addresses it to SCRAPER_PROXY when one is configured, and every
\* variant keeps the headers of opts.
AttemptRequest(v, url, proxy) ==
  [host |-> IF v = "raw" /\ proxy THEN "scraper-proxy" ELSE HostOf(url),
   authorization |-> OptsHaveAuthorization(url)]

\* `attempt++` and the fetch() of this iteration of `while (true)`: on entry, and
\* again when a backoff sleep has elapsed.
FetchIssue ==
  /\ fpc \in {"called", "sleeping"}
  /\ attempt' = attempt + 1
  /\ fpc' = "request"
  /\ UNCHANGED <<fvariant, furl, fproxy, maxAttempts, fbackoff, ferror, outcomes, sleeps>>
  /\ UNCHANGED <<mapVars, pipeVars>>
  /\ UNCHANGED fnVars

\* The pending fetch() settles and the iteration runs to its return, its throw or
\* its sleep.
FetchSettle ==
  /\ fpc = "request"
  /\ \E o \in Outcomes, bodyLen \in BodyLens :
       /\ (IsOk(o) \/ o.kind # "status" \/ fvariant # "raw") => bodyLen = 0
       /\ outcomes' = Append(outcomes, o)
       /\ IF IsOk(o)
            THEN /\ fpc' = "returned"
                 /\ UNCHANGED <<fbackoff, ferror, sleeps>>
            ELSE IF RateLimitRetry(fvariant, o, attempt, maxAttempts)
              THEN /\ fpc' = "sleeping"
                   /\ fbackoff' = Backoff(fvariant, TRUE, attempt)
                   /\ sleeps' = sleeps + 1
                   /\ UNCHANGED ferror
              ELSE IF Exhausted(attempt, maxAttempts)
                THEN /\ fpc' = "failed"
                     /\ ferror' = FinalError(fvariant, furl, attempt,
                                             AttemptError(fvariant, furl, fproxy, o, bodyLen))
                     /\ UNCHANGED <<fbackoff, sleeps>>
                ELSE /\ fpc' = "sleeping"
                     /\ fbackoff' = Backoff(fvariant, FALSE, attempt)
                     /\ sleeps' = sleeps + 1
                     /\ UNCHANGED ferror
  /\ UNCHANGED <<fvariant, furl, fproxy, maxAttempts, attempt>>
  /\ UNCHANGED <<mapVars, pipeVars>>
  /\ UNCHANGED fnVars

(***************************************************************************)
(* Claims about the fetcher (checked under SpecFetch)                      *)
(***************************************************************************)
Settled == fpc \in {"returned", "failed"}

LastOutcome == outcomes[Len(outcomes)]

All429 == \A k \in 1..Len(outcomes) : outcomes[k] = [kind |-> "status", status |-> 429]

\* C5: in every variant, a target answering 429 on every attempt is attempted
\* exactly maxAttempts times with maxAttempts - 1 backoff sleeps and the call then
\* fails; no call makes more than maxAttempts attempts or settles without one.
C5_RetryExhaustion ==
  /\ attempt <= maxAttempts
  /\ Settled => attempt >= 1
  /\ (Settled /\ All429) =>
        /\ fpc = "failed"
        /\ attempt = maxAttempts
        /\ Len(outcomes) = maxAttempts
        /\ sleeps = maxAttempts - 1

\* The Express fetcher gave up on an always-429 target after its default 3 attempts.
C5_Witness ==
  /\ fvariant = "express"
  /\ fpc = "failed"
  /\ All429
  /\ maxAttempts = DefaultMaxAttempts("express")
  /\ Len(outcomes) = 3

\* C6: in every variant, the error thrown after maxAttempts failed attempts
\* identifies the URL and the attempt count and wraps the last underlying cause.
C6_DescriptiveFinalError ==
  fpc = "failed" =>
    /\ "url" \in DOMAIN ferror.message
    /\ ferror.message.url = furl
    /\ "attempts" \in DOMAIN ferror.message
    /\ ferror.message.attempts = maxAttempts
    /\ "cause" \in DOMAIN ferror
    /\ \E b \in BodyLens :
         ferror.cause = AttemptError(fvariant, furl, fproxy, LastOutcome, b)

\* C7: in fetchWithRetriesRaw every kind of failure counts against the one attempt
\* counter: never more than maxAttempts attempts, every failed attempt but the
\* last is followed by a backoff and a retry, and the first 2xx attempt returns at
\* once with no further attempt.
C7_SharedAttemptCounter ==
  fvariant = "raw" =>
    /\ attempt <= maxAttempts
    /\ Len(outcomes) = (IF fpc = "request" THEN attempt - 1 ELSE attempt)
    /\ \A k \in 1..(Len(outcomes) - 1) : ~IsOk(outcomes[k])
    /\ (Len(outcomes) > 0 /\ IsOk(LastOutcome)) <=> fpc = "returned"
    /\ fpc = "failed" => attempt = maxAttempts
    /\ fpc = "sleeping" => attempt < maxAttempts
    /\ sleeps = (IF fpc \in {"called", "request", "sleeping"} THEN Len(outcomes) ELSE Len(outcomes) - 1)

\* A timeout, a 403 and a 500 were each retried and the fourth attempt succeeded.
C7_Witness ==
  /\ fvariant = "raw"
  /\ fpc = "returned"
  /\ maxAttempts = 4
  /\ outcomes = <<[kind |-> "abort", status |-> 0], [kind |-> "status", status |-> 403],
                  [kind |-> "status", status |-> 500], [kind |-> "status", status |-> 200]>>
  /\ sleeps = 3

IdleMap ==
  /\ mapState = "idle"
  /\ inputs = <<>>
  /\ limit = 0
  /\ results = <<>>
  /\ idx = 0
  /\ spawned = 0
  /\ wst = [w \in Workers |-> UnbornWorker]
  /\ claims = <<>>
  /\ claimedBy = <<>>
  /\ rejected = {}

InitFetch ==
  /\ IdleFn
  /\ IdleMap
  /\ IdlePipe
  /\ fvariant \in FetchVariants
  /\ furl \in Urls
  /\ fproxy \in (IF fvariant = "raw" THEN BOOLEAN ELSE {FALSE})
  /\ maxAttempts \in (1..MaxAttemptsArg) \cup {DefaultMaxAttempts(fvariant)}
  /\ attempt = 0
  /\ fpc = "called"
  /\ fbackoff = [ms |-> 0, jitterBelow |-> 0]
  /\ ferror = NoError
  /\ outcomes = <<>>
  /\ sleeps = 0

NextFetch ==
  \/ FetchIssue
  \/ FetchSettle

SpecFetch == InitFetch /\ [][NextFetch]_vars

(***************************************************************************)
(* JavaScript values of the handler                                        *)
(***************************************************************************)
Null == [t |-> "null"]

Undef == [t |-> "undef"]

Str(x) == [t |-> "str", v |-> x]

Num(n) == [t |-> "num", v |-> n]

\* A DD-MM-YYYY string, kept as its three numbers.
DateStr(d, m, y) == [t |-> "ddmmyyyy", d |-> d, m |-> m, y |-> y]

\* JavaScript truthiness.
Truthy(x) ==
  /\ x.t \notin {"null", "undef"}
  /\ ~(x.t = "num" /\ x.v = 0)
  /\ ~(x.t = "str" /\ x.v = "")

\* obj.field : undefined when the object has no such property.
Get(obj, f) == IF f \in DOMAIN obj THEN obj[f] ELSE Undef

(***************************************************************************)
(* Parsers of the listing and detail pages                                 *)
(***************************************************************************)
\* String.prototype.trim on the attribute values of the model.
Trim(v) ==
  CASE v = " a" -> "a"
    [] v = " b" -> "b"
    [] v = " " -> ""
    [] OTHER -> v

RECURSIVE Dedup(_, _)

\* [...new Set(arr)] : first occurrences, in order.
Dedup(arr, seen) ==
  IF arr = <<>> THEN <<>>
  ELSE IF Head(arr) \in seen THEN Dedup(Tail(arr), seen)
  ELSE <<Head(arr)>> \o Dedup(Tail(arr), seen \cup {Head(arr)})

RECURSIVE TrimmedNonEmpty(_)

\* `if (v) arr.push(v.trim())` over the [data-item-slug] elements.
TrimmedNonEmpty(attrs) ==
  IF attrs = <<>> THEN <<>>
  ELSE IF Head(attrs) = "" THEN TrimmedNonEmpty(Tail(attrs))
  ELSE <<Trim(Head(attrs))>> \o TrimmedNonEmpty(Tail(attrs))

parseListPageForSlugs(html) == Dedup(TrimmedNonEmpty(html.items), {})

(***************************************************************************)
(* Calls of parseListPageForSlugs on bounded listing pages                 *)
(***************************************************************************)
\* Most [data-item-slug] elements of a page.
MaxAttrs == 3

\* The attribute values: plain, with surrounding whitespace, empty, and only
\* whitespace.
AttrValues == {"a", " a", "b", "", " "}

\* Calls made on one page.
ParseCalls == 2

\* One call: parseListPageForSlugs(html).
ParseCall ==
  /\ Len(pcalls) < ParseCalls
  /\ pcalls' = Append(pcalls, parseListPageForSlugs(phtml))
  /\ UNCHANGED <<phtml, djson, dcall, sarr, scall, keyVars, frontVars>>
  /\ UNCHANGED <<mapVars, fetchVars, pipeVars>>

InitParse ==
  /\ IdleMap
  /\ IdleFetch
  /\ IdlePipe
  /\ IdleDates
  /\ IdleSort
  /\ IdleKey
  /\ IdleFront
  /\ phtml \in {[items |-> it] : it \in SeqsUpTo(AttrValues, MaxAttrs)}
  /\ pcalls = <<>>

NextParse == ParseCall

SpecParse == InitParse /\ [][NextParse]_vars

\* The label of the last pagination control: absent, not a number, or an integer.
findPageCount(html) == IF html.label.kind = "int" THEN html.label.n ELSE 1

\* parseInt of the first [data-tmdb-id] attribute, null when absent or NaN.
extractTmdbFromFilmHtml(html) == IF html.tmdb.kind = "int" THEN Num(html.tmdb.n) ELSE Null

\* The og:title (or heading) with a trailing parenthesis removed; null when empty.
extractCleanTitleFromHtml(html) == IF html.title = "" THEN Null ELSE Str(html.title)

(***************************************************************************)
(* Date extraction                                                         *)
(***************************************************************************)
\* An ISO date YYYY-MM-DD is kept as the number YYYYMMDD: the order of the
\* numbers is the lexicographic order of the zero-padded strings.
isoToDDMM(ymd) == DateStr(ymd % 100, (ymd \div 100) % 100, ymd \div 10000)

\* String.prototype.toUpperCase on the country codes of the model.
Upper(c) == CASE c = "us" -> "US" [] c = "gb" -> "GB" [] OTHER -> c

\* A release_date string holding the ISO date ymd (as the number YYYYMMDD).
IsoDate(ymd) == [t |-> "iso", ymd |-> ymd]

\* rd.release_date is present and matches /(\d{4}-\d{2}-\d{2})/
HasIsoDate(rd) == "release_date" \in DOMAIN rd /\ rd.release_date.t = "iso"

RECURSIVE FirstMatch(_, _)

\* results.find(r => upper(r.iso_3166_1) === upper(countryIso)) (index, 0: none)
FirstMatch(entries, country) ==
  IF entries = <<>> THEN 0
  ELSE IF Upper(Head(entries).iso_3166_1) = Upper(country) THEN 1
  ELSE LET r == FirstMatch(Tail(entries), country) IN IF r = 0 THEN 0 ELSE r + 1

RECURSIVE FirstExactMatch(_, _)

\* json.results.find(r => r.iso_3166_1 === countryIso) (index, 0: none)
FirstExactMatch(entries, country) ==
  IF entries = <<>> THEN 0
  ELSE IF Head(entries).iso_3166_1 = country THEN 1
  ELSE LET r == FirstExactMatch(Tail(entries), country) IN IF r = 0 THEN 0 ELSE r + 1

\* Number.isFinite(Number(rd.type)) ? Number(rd.type) : null
\* Number() of a numeric string is its number, of null and of "" it is 0, of
\* undefined and of any other string of the model it is NaN.
rdType(rd) ==
  LET t == Get(rd, "type") IN
    CASE t.t = "num" -> t
      [] t.t = "str" /\ t.v = "3" -> Num(3)
      [] t.t = "str" /\ t.v = "4" -> Num(4)
      [] t.t = "str" /\ t.v = "" -> Num(0)
      [] t.t = "null" -> Num(0)
      [] OTHER -> Null

RECURSIVE BestCountry(_, _, _)

\* The loop over entry.release_dates keeping the smallest date and its type.
BestCountry(rds, allowed, best) ==
  IF rds = <<>> THEN best
  ELSE LET rd == Head(rds)
           skip == \/ ~HasIsoDate(rd)
                   \/ (allowed # {} /\ rdType(rd) # Null /\ rdType(rd).v \notin allowed)
           better == ~skip /\ (best.ymd = 0 \/ rd.release_date.ymd < best.ymd)
       IN BestCountry(Tail(rds), allowed,
                      IF better THEN [ymd |-> rd.release_date.ymd, type |-> rdType(rd)] ELSE best)

RECURSIVE BestType4(_, _)

\* The loop over one entry's release_dates keeping the smallest type-4 date.
BestType4(rds, best) ==
  IF rds = <<>> THEN best
  ELSE LET rd == Head(rds)
           better == rdType(rd) = Num(4) /\ HasIsoDate(rd) /\ (best = 0 \/ rd.release_date.ymd < best)
       IN BestType4(Tail(rds), IF better THEN rd.release_date.ymd ELSE best)

RECURSIVE BestType4Any(_, _)

\* The loop over all entries.
BestType4Any(entries, best) ==
  IF entries = <<>> THEN best
  ELSE BestType4Any(Tail(entries), BestType4(Head(entries).release_dates, best))

NoDates ==
  [country_earliest |-> Null, country_earliest_type |-> Null,
   type4_earliest_any_iso |-> Null, type4_type |-> Null]

DigitalFromTargetEntryOnly(json, country, allowed) ==
  IF "results" \notin DOMAIN json THEN NoDates
  ELSE LET k == FirstMatch(json.results, country)
           bc == IF k = 0 THEN [ymd |-> 0, type |-> Null]
                 ELSE BestCountry(json.results[k].release_dates, allowed, [ymd |-> 0, type |-> Null])
           b4 == IF k = 0 THEN 0 ELSE BestType4(json.results[k].release_dates, 0)
       IN [country_earliest |-> IF bc.ymd = 0 THEN Null ELSE isoToDDMM(bc.ymd),
           country_earliest_type |-> bc.type,
           type4_earliest_any_iso |-> IF b4 = 0 THEN Null ELSE isoToDDMM(b4),
           type4_type |-> IF b4 = 0 THEN Null ELSE Num(4)]

\* extractDatesFromJsonWithTypes; `allowed` is the allow-list as a set, {} for null.
\* extractDatesFromJson (part_001) returns the same two dates with allowed = {}
\* and no type fields.
extractDatesFromJsonWithTypes(json, country, allowed) ==
  IF "results" \notin DOMAIN json THEN NoDates
  ELSE LET k == FirstMatch(json.results, country)
           bc == IF k = 0 THEN [ymd |-> 0, type |-> Null]
                 ELSE BestCountry(json.results[k].release_dates, allowed, [ymd |-> 0, type |-> Null])
           b4 == BestType4Any(json.results, 0)
       IN [country_earliest |-> IF bc.ymd = 0 THEN Null ELSE isoToDDMM(bc.ymd),
           country_earliest_type |-> bc.type,
           type4_earliest_any_iso |-> IF b4 = 0 THEN Null ELSE isoToDDMM(b4),
           type4_type |-> IF b4 = 0 THEN Null ELSE Num(4)]

\* extractDatesFromTmdbResp of the Express server: the entry is found by exact
\* comparison of the country codes; `String(rd.type) === '4'` selects the events
\* rdType gives 4 for, and the first of the sorted dates is the smallest.
extractDatesFromTmdbResp(json, country) ==
  IF "results" \notin DOMAIN json
    THEN [country_earliest |-> Null, type4_earliest_any_iso |-> Null]
  ELSE LET k == FirstExactMatch(json.results, country)
           bc == IF k = 0 THEN [ymd |-> 0, type |-> Null]
                 ELSE BestCountry(json.results[k].release_dates, {}, [ymd |-> 0, type |-> Null])
           b4 == BestType4Any(json.results, 0)
       IN [country_earliest |-> IF bc.ymd = 0 THEN Null ELSE isoToDDMM(bc.ymd),
           type4_earliest_any_iso |-> IF b4 = 0 THEN Null ELSE isoToDDMM(b4)]

\* The extraction of handler h's item task; the Express server passes
\* country.toUpperCase().
ExtractorOf(h, json, country, allowed) ==
  IF h = "express" THEN extractDatesFromTmdbResp(json, Upper(country))
  ELSE extractDatesFromJsonWithTypes(json, country, allowed)

(***************************************************************************)
(* Calls of the date extraction on bounded metadata responses              *)
(***************************************************************************)
\* Longest release_dates list of an entry.
MaxEvents == 2

\* Upstream events: typed and dated (3 theatrical, 4 digital, 1 premiere,
\* 2 limited theatrical), with a type that is not a number, with no
\* type, with no date, and with a date that does not match the ISO pattern.
Events ==
  {[type |-> Num(3), release_date |-> IsoDate(20210501)],
   [type |-> Num(4), release_date |-> IsoDate(20210410)],
   [type |-> Num(4), release_date |-> IsoDate(20210301)],
   [type |-> Num(1), release_date |-> IsoDate(20190101)],
   [type |-> Num(2), release_date |-> IsoDate(20190301)],
   [type |-> Str("premiere"), release_date |-> IsoDate(20200101)],
   [release_date |-> IsoDate(20200202)],
   [type |-> Num(3)],
   [type |-> Num(4), release_date |-> [t |-> "text"]]}

CountryEntry(c, rds) == [iso_3166_1 |-> c, release_dates |-> rds]

\* The example of the catalogue: US has types 3 and 4, GB has type 4.
ExampleJson ==
  [results |-> <<CountryEntry("US", <<[type |-> Num(3), release_date |-> IsoDate(20210501)],
                                      [type |-> Num(4), release_date |-> IsoDate(20210410)]>>),
                 CountryEntry("GB", <<[type |-> Num(4), release_date |-> IsoDate(20210301)]>>)>>]

\* The responses extractDatesFromJsonWithTypes is called on: null, no entry,
\* the example, one entry, and two entries (of two countries, or twice the
\* same one).
Jsons ==
  {Null, [results |-> <<>>], ExampleJson}
    \cup {[results |-> <<CountryEntry(c, s)>>] : c \in {"US", "us"}, s \in SeqsUpTo(Events, MaxEvents)}
    \cup {[results |-> <<CountryEntry("US", s), CountryEntry(c, t)>>] :
            s \in SeqsUpTo(Events, MaxEvents - 1), c \in {"GB", "US"}, t \in SeqsUpTo(Events, 1)}

\* The countryIso argument.
Countries == {"US", "us", "GB", "FR"}

\* The allowedTypesForCountry argument: null ({}), or a list of type codes.
AllowLists == {{}, {3}, {3, 4, 5, 6}}

\* One call: extractDatesFromJsonWithTypes(json, country, allowedTypesForCountry),
\* or extractDatesFromTmdbResp(json, country.toUpperCase()), which takes no
\* allow-list.
ExtractDates ==
  /\ \E h \in {"api", "express"}, c \in Countries, a \in AllowLists :
       /\ h = "express" => a = {}
       /\ dcall' = [h |-> h, country |-> c, allowed |-> a, out |-> ExtractorOf(h, djson, c, a)]
  /\ UNCHANGED djson
  /\ UNCHANGED <<sarr, scall, phtml, pcalls, keyVars, frontVars>>
  /\ UNCHANGED <<mapVars, fetchVars, pipeVars>>

InitDates ==
  /\ IdleMap
  /\ IdleFetch
  /\ IdlePipe
  /\ IdleSort
  /\ IdleParse
  /\ IdleKey
  /\ IdleFront
  /\ djson \in Jsons
  /\ dcall = NoCall

NextDates == ExtractDates

SpecDates == InitDates /\ [][NextDates]_vars

(***************************************************************************)
(* Sorting of the results                                                  *)
(***************************************************************************)
\* The three handlers: api/list-release.js, unnamed/part_001, server/index.js.
Handlers == {"api", "part001", "express"}

Serverless == {"api", "part001"}

\* Stands for Number.MAX_SAFE_INTEGER (and for Infinity in the Express server):
\* larger than the key of every date.
MaxSafeKey == 2147483647

\* Number(d.split('-').join('')): the parts joined in the order of the string.
dateKeyNotReversed(d) == IF Truthy(d) THEN d.d * 1000000 + d.m * 10000 + d.y ELSE MaxSafeKey

\* Number(d.split('-').reverse().join('')), the key of an absent date otherwise.
dateKey(d) == IF Truthy(d) THEN d.y * 10000 + d.m * 100 + d.d ELSE MaxSafeKey

\* String.prototype.localeCompare on the names of the model.
NameRank(n) ==
  CASE n = "" -> 0 [] n = "a" -> 1 [] n = "Alpha" -> 2 [] n = "b" -> 3 [] n = "Beta" -> 4 [] OTHER -> 5

NameOf(item) == LET n == Get(item, "film_name") IN IF Truthy(n) THEN n.v ELSE ""

localeCompare(a, b) == NameRank(NameOf(a)) - NameRank(NameOf(b))

earliestKeyCountryOnly(item) == dateKey(Get(item, "country_release"))

earliestKey(item) == Min(dateKey(Get(item, "country_release")), dateKey(Get(item, "digital_release")))

\* The comparator of the handler; a NaN result (Infinity - Infinity in the Express
\* server) counts as 0, as Array.prototype.sort takes it.
Compare(h, a, b) ==
  IF h = "api"
    THEN IF earliestKey(a) # earliestKey(b) THEN earliestKey(a) - earliestKey(b)
         ELSE localeCompare(a, b)
    ELSE LET ca == Get(a, "country_release")
             cb == Get(b, "country_release")
             da == Get(a, "digital_release")
             db == Get(b, "digital_release")
         IN IF h = "express" /\ ~Truthy(ca) /\ ~Truthy(cb) THEN 0
            ELSE IF dateKey(ca) # dateKey(cb) THEN dateKey(ca) - dateKey(cb)
            ELSE IF h = "express" /\ ~Truthy(da) /\ ~Truthy(db) THEN 0
            ELSE IF dateKey(da) # dateKey(db) THEN dateKey(da) - dateKey(db)
            ELSE localeCompare(a, b)

RECURSIVE Insert(_, _, _)

\* x placed into the sorted sequence s, after every element it does not precede.
Insert(h, s, x) ==
  IF s = <<>> THEN <<x>>
  ELSE IF Compare(h, x, s[Len(s)]) < 0
    THEN Append(Insert(h, SubSeq(s, 1, Len(s) - 1), x), s[Len(s)])
    ELSE Append(s, x)

RECURSIVE StableSort(_, _)

StableSort(h, s) == IF s = <<>> THEN <<>> ELSE Insert(h, StableSort(h, SubSeq(s, 1, Len(s) - 1)), s[Len(s)])

\* The results array as a sequence, in index order.
ArrayToSeq(arr) == [k \in 1..Cardinality(DOMAIN arr) |-> arr[k - 1]]

SortSkipped(h, arr) == ArrayToSeq(arr)

\* results.sort(comparator): a stable sort of the assigned elements; the never
\* assigned slots go last and the comparator is not called on them.
SortResults(h, arr) ==
  LET s == ArrayToSeq(arr)
      defined == SelectSeq(s, LAMBDA r : r # Hole)
      holes == SelectSeq(s, LAMBDA r : r = Hole)
  IN StableSort(h, defined) \o holes

(***************************************************************************)
(* Calls of the sort on bounded results arrays                             *)
(***************************************************************************)
\* Longest results array handed to the sort.
MaxItems == 3

\* FilmResults with each date present or absent, a record of the executor's
\* catch clause, a result with no name, and a slot that was never assigned.
SortItems ==
  {[film_query |-> Str("q"), film_name |-> n, tmdb_id |-> Num(603),
    country_release |-> c, digital_release |-> d] :
     n \in {Str("a"), Str("b")},
     c \in {Null, DateStr(1, 1, 2020), DateStr(5, 5, 2019)},
     d \in {Null, DateStr(1, 6, 2019)}}
    \cup {[film_query |-> Str("x"), film_name |-> Null, tmdb_id |-> Null,
           country_release |-> Null, digital_release |-> Null],
          [error |-> "failed"],
          Hole}

\* One call: results.sort(comparator) in handler h.
SortCall ==
  /\ scall = NoCall
  /\ \E h \in Handlers : scall' = [h |-> h, out |-> SortResults(h, sarr)]
  /\ UNCHANGED <<sarr, djson, dcall, phtml, pcalls, keyVars, frontVars>>
  /\ UNCHANGED <<mapVars, fetchVars, pipeVars>>

InitSort ==
  /\ IdleMap
  /\ IdleFetch
  /\ IdlePipe
  /\ IdleDates
  /\ IdleParse
  /\ IdleKey
  /\ IdleFront
  /\ sarr \in UNION {[0..(n - 1) -> SortItems] : n \in 0..MaxItems}
  /\ scall = NoCall

NextSort == SortCall

SpecSort == InitSort /\ [][NextSort]_vars

(***************************************************************************)
(* dateKey on converted ISO dates (specification SpecKey)                  *)
(***************************************************************************)
\* The years, months and days of the ISO dates the keys are computed for.
KeyYears == {999, 1999, 2000}

KeyMonths == {1, 9, 12}

KeyDays == {1, 10, 28}

KeyDates == [y : KeyYears, m : KeyMonths, d : KeyDays]

\* The zero-padded string YYYY-MM-DD of a date, as the number YYYYMMDD.
IsoOf(date) == date.y * 10000 + date.m * 100 + date.d

\* dateKey(isoToDDMM(d1)), dateKey(isoToDDMM(d2)) and dateKey(null)
KeyCall ==
  /\ kcall = NoCall
  /\ kcall' = [k1 |-> dateKey(isoToDDMM(IsoOf(kdates[1]))),
               k2 |-> dateKey(isoToDDMM(IsoOf(kdates[2]))),
               absent |-> dateKey(Null)]
  /\ UNCHANGED <<kdates, djson, dcall, sarr, scall, phtml, pcalls, frontVars>>
  /\ UNCHANGED <<mapVars, fetchVars, pipeVars>>

InitKey ==
  /\ IdleMap
  /\ IdleFetch
  /\ IdlePipe
  /\ IdleDates
  /\ IdleSort
  /\ IdleParse
  /\ IdleFront
  /\ kdates \in KeyDates \X KeyDates
  /\ kcall = NoCall

NextKey == KeyCall

SpecKey == InitKey /\ [][NextKey]_vars

(***************************************************************************)
(* The front end: the form's submit listener (specification SpecFront)     *)
(***************************************************************************)
\* Submits of the form in one behaviour.
MaxSubmits == 3

\* Rows of a response in the model.
MaxRows == 2

\* The values of the form's inputs, trimmed.
FormValues == [username : {"", "u"}, listname : {"", "l"}, country : {"", "US"}]

\* Row k of the response to the request of submit i.
Row(i, k) == [req |-> i, film_query |-> k]

RowsOf(i, n) == [k \in 1..n |-> Row(i, k)]

\* What `await fetch(...)` of submit i can give: a rejection, a response
\* that is not ok, or an ok response whose body is not JSON (json |-> Null),
\* an array, or an object with or without `results` and with `ok` true,
\* false or missing.
Replies(i) ==
  {[rejected |-> TRUE]}
  \cup {[rejected |-> FALSE, ok |-> FALSE]}
  \cup {[rejected |-> FALSE, ok |-> TRUE, json |-> Null]}
  \cup {[rejected |-> FALSE, ok |-> TRUE, json |-> [isArray |-> TRUE, rows |-> RowsOf(i, n)]] : n \in 0..MaxRows}
  \cup {[rejected |-> FALSE, ok |-> TRUE, json |-> [isArray |-> FALSE, ok |-> o, results |-> RowsOf(i, n)]] :
          o \in {"true", "false", "undefined"}, n \in 0..MaxRows}
  \cup {[rejected |-> FALSE, ok |-> TRUE, json |-> [isArray |-> FALSE, ok |-> o]] : o \in {"true", "false"}}

showStatus(msg, isError) == [hidden |-> FALSE, text |-> msg, isError |-> isError]

hideStatus == HiddenStatus

TryThrew == [threw |-> TRUE]

TryRows(rows) == [threw |-> FALSE, rows |-> rows]

\* The try block up to `rows`: the rows to render, unless it throws.
RowsOrThrow(reply) ==
  IF reply.rejected \/ ~reply.ok \/ reply.json = Null THEN TryThrew
  ELSE IF reply.json.isArray THEN TryRows(reply.json.rows)
  ELSE IF "results" \in DOMAIN reply.json
       THEN (IF reply.json.ok = "false" THEN TryThrew ELSE TryRows(reply.json.results))
  ELSE TryThrew

\* The listener up to its first await: the page is reset, the inputs are
\* validated and the request is sent.
Submit ==
  /\ Len(submits) < MaxSubmits
  /\ resultsHidden' = TRUE
  /\ tbody' = <<>>
  /\ \E f \in FormValues :
       IF f.username = "" \/ f.listname = "" \/ f.country = ""
       THEN /\ statusEl' = showStatus("Please fill", TRUE)
            /\ submits' = Append(submits, [at |-> "returned", end |-> "invalid"])
       ELSE /\ statusEl' = showStatus("Fetching", FALSE)
            /\ submits' = Append(submits, [at |-> "await fetch", end |-> "none"])
  /\ UNCHANGED <<djson, dcall, sarr, scall, phtml, pcalls, keyVars>>
  /\ UNCHANGED <<mapVars, fetchVars, pipeVars>>

\* The rest of the listener of submit i, once its fetch has settled.
SubmitResume(i, reply) ==
  /\ submits[i].at = "await fetch"
  /\ LET tried == RowsOrThrow(reply)
         rows == tried.rows IN
       IF tried.threw
       THEN /\ statusEl' = showStatus("Error", TRUE)
            /\ submits' = [submits EXCEPT ![i] = [at |-> "returned", end |-> "error"]]
            /\ UNCHANGED <<resultsHidden, tbody>>
       ELSE IF Len(rows) = 0
       THEN /\ statusEl' = showStatus("No films found", TRUE)
            /\ submits' = [submits EXCEPT ![i] = [at |-> "returned", end |-> "empty"]]
            /\ UNCHANGED <<resultsHidden, tbody>>
       ELSE /\ statusEl' = hideStatus
            /\ resultsHidden' = FALSE
            /\ tbody' = rows
            /\ submits' = [submits EXCEPT ![i] = [at |-> "returned", end |-> "rendered"]]
  /\ UNCHANGED <<djson, dcall, sarr, scall, phtml, pcalls, keyVars>>
  /\ UNCHANGED <<mapVars, fetchVars, pipeVars>>

\* The click listener of the clear button.
Clear ==
  /\ ~(statusEl = HiddenStatus /\ resultsHidden /\ tbody = <<>>)
  /\ tbody' = <<>>
  /\ resultsHidden' = TRUE
  /\ statusEl' = hideStatus
  /\ UNCHANGED submits
  /\ UNCHANGED <<djson, dcall, sarr, scall, phtml, pcalls, keyVars>>
  /\ UNCHANGED <<mapVars, fetchVars, pipeVars>>

InitFront ==
  /\ IdleMap
  /\ IdleFetch
  /\ IdlePipe
  /\ IdleDates
  /\ IdleSort
  /\ IdleParse
  /\ IdleKey
  /\ IdleFront

NextFront ==
  \/ Submit
  \/ \E i \in 1..Len(submits) : \E reply \in Replies(i) : SubmitResume(i, reply)
  \/ Clear

SpecFront == InitFront /\ [][NextFront]_vars

(***************************************************************************)
(* The list-release handler                                                *)
(***************************************************************************)
\* CONCURRENCY of the Express server.
ExpressConcurrency == 6

\* The fetcher each handler calls.
FetcherOf(h) == CASE h = "api" -> "raw" [] h = "part001" -> "serverless" [] OTHER -> "express"

ListPageUrl(p) == [host |-> "letterboxd.com", kind |-> "list", page |-> p, slug |-> "", id |-> 0]

FilmUrl(slug) == [host |-> "letterboxd.com", kind |-> "film", page |-> 0, slug |-> slug, id |-> 0]

TmdbUrl(id) == [host |-> "api.themoviedb.org", kind |-> "release_dates", page |-> 0, slug |-> "", id |-> id]

\* How the last attempt of a fetch that exhausts its retries ends, in the handler's runs.
PipeFailOutcomes == {[kind |-> "status", status |-> 429]}

\* What the handler's fetch helper throws for url once its retries are exhausted.
FetchFailures(h, url) ==
  {FinalError(FetcherOf(h), url, DefaultMaxAttempts(FetcherOf(h)),
              AttemptError(FetcherOf(h), url, FALSE, o, 0)) : o \in PipeFailOutcomes}

\* The [data-item-slug] attribute values a listing page may carry.
ItemLists == {<<>>, <<"a">>, <<"b", "a", " b">>}

\* The label of the last pagination control of the first page.
Labels ==
  {[kind |-> "absent", n |-> 0], [kind |-> "nan", n |-> 0]}
    \cup {[kind |-> "int", n |-> n] : n \in 0..MaxPages}

ListingPages == {[items |-> it, label |-> lb] : it \in ItemLists, lb \in Labels}

LaterPages == {[items |-> it, label |-> [kind |-> "absent", n |-> 0]] : it \in ItemLists}

\* Detail pages: with a title and a catalogue id, or with neither.
DetailPages ==
  {[title |-> "Alpha", tmdb |-> [kind |-> "int", n |-> 603]],
   [title |-> "", tmdb |-> [kind |-> "absent", n |-> 0]]}

\* Metadata responses: the catalogue's example, one with a premiere before the
\* theatrical release, an empty one, and one whose
\* `results` is not a list (date extraction throws on it).
MetaResponses ==
  {[results |-> <<[iso_3166_1 |-> "US",
                   release_dates |-> <<[type |-> Num(3), release_date |-> IsoDate(20210501)],
                                       [type |-> Num(4), release_date |-> IsoDate(20210410)]>>],
                  [iso_3166_1 |-> "GB",
                   release_dates |-> <<[type |-> Num(4), release_date |-> IsoDate(20210301)]>>]>>],
   [results |-> <<[iso_3166_1 |-> "US",
                   release_dates |-> <<[type |-> Num(1), release_date |-> IsoDate(20190101)],
                                       [type |-> Num(3), release_date |-> IsoDate(20210501)]>>]>>],
   [results |-> <<>>],
   [results |-> <<>>, resultsIsString |-> TRUE]}

\* results.find is not a function
ExtractThrows(json) == "resultsIsString" \in DOMAIN json

\* The country of the request.
ReqCountry == "US"

AddAllKeepsDuplicates(set, arr) == set \o arr

RECURSIVE AddAll(_, _)

\* `for (const s of ...) slugs.add(s)`
AddAll(set, arr) ==
  IF arr = <<>> THEN set
  ELSE AddAll(IF \E k \in 1..Len(set) : set[k] = Head(arr) THEN set ELSE Append(set, Head(arr)),
              Tail(arr))

PushErrorDropped(film, msg) == film

\* filmResult.error = filmResult.error || []; filmResult.error.push(msg)
PushError(film, msg) ==
  IF "error" \in DOMAIN film
    THEN [film EXCEPT !.error = Append(@, msg)]
    ELSE film @@ [error |-> <<msg>>]

\* The limit handed to the executor.
ConcurrencyOf(h) == IF h = "express" THEN ExpressConcurrency ELSE concurrency

\* `Array.from(slugs)` and the call of the executor over it.
StartResolving(sl) ==
  /\ hpc' = "resolving"
  /\ MapCall(sl, ConcurrencyOf(handler))

\* `if (!username || !listname || !country)`: the serverless handlers test the
\* trimmed fields, the Express server the fields as received.
FieldsAccepted(h, fields) ==
  IF h \in Serverless THEN fields = "given" ELSE fields # "missing"

\* The request arrives: method and field validation, then the first-page fetch.
HandleRequest ==
  /\ hpc = "received"
  /\ IF handler \in Serverless /\ reqMethod # "POST"
       THEN /\ response' = [status |-> 405, body |-> [text |-> "Only POST allowed"]]
            /\ hpc' = "responded"
            /\ UNCHANGED nList
       ELSE IF ~FieldsAccepted(handler, reqFields)
         THEN /\ response' =
                   [status |-> 400,
                    body |-> IF handler \in Serverless
                               THEN [ok |-> FALSE, error |-> "username, listname and country are required (POST JSON)"]
                               ELSE [text |-> "username,listname,country are required"]]
              /\ hpc' = "responded"
              /\ UNCHANGED nList
         ELSE /\ hpc' = "firstPage"
              /\ nList' = nList + 1
              /\ UNCHANGED response
  /\ UNCHANGED <<handler, reqMethod, reqFields, excludePremieres, bearer, concurrency, pageCount, page, slugs,
                 nMeta, failedPages>>
  /\ UNCHANGED <<mapVars, fetchVars>>
  /\ UNCHANGED fnVars

FirstPageFailureSwallowed(h, err) == [status |-> 200, body |-> [ok |-> TRUE, results |-> <<>>]]

\* The response to a first-page fetch that failed: the 502 of the serverless
\* handlers; in the Express server the outer catch's 500.
FirstPageFailureResponse(h, err) ==
  IF h \in Serverless
    THEN [status |-> 502,
          body |-> [ok |-> FALSE, error |-> "Failed fetching list first page", detail |-> err.message]]
    ELSE [status |-> 500, body |-> [text |-> err.message]]

\* The first-page fetch fails after its retries.
FirstPageFail ==
  /\ hpc = "firstPage"
  /\ \E err \in FetchFailures(handler, ListPageUrl(1)) :
       response' = FirstPageFailureResponse(handler, err)
  /\ hpc' = "responded"
  /\ failedPages' = failedPages \cup {1}
  /\ UNCHANGED <<handler, reqMethod, reqFields, excludePremieres, bearer, concurrency, pageCount, page, slugs,
                 nList, nMeta>>
  /\ UNCHANGED <<mapVars, fetchVars>>
  /\ UNCHANGED fnVars

LoopEndsAfterSecondPage(q, pc) == q <= pc /\ q <= 2

\* The loop condition `p <= pageCount`.
LoopContinues(q, pc) == q <= pc

\* The loop `for (p = 2; p <= pageCount; p++)` moves on to page q, or ends.
GoToPage(q, pc, sl) ==
  /\ page' = q
  /\ IF LoopContinues(q, pc)
       THEN /\ hpc' = "pageFetch"
            /\ nList' = nList + 1
            /\ UNCHANGED mapVars
       ELSE /\ StartResolving(sl)
            /\ UNCHANGED nList

\* The first page arrives: page count, first slugs, then the loop over the
\* remaining pages (or, with a single page, the executor).
FirstPageOk ==
  /\ hpc = "firstPage"
  /\ \E html \in ListingPages :
       LET pc == findPageCount(html)
           sl == AddAll(<<>>, parseListPageForSlugs(html))
       IN /\ pageCount' = pc
          /\ slugs' = sl
          /\ GoToPage(2, pc, sl)
  /\ UNCHANGED <<handler, reqMethod, reqFields, excludePremieres, bearer, concurrency, response, nMeta, failedPages>>
  /\ UNCHANGED fetchVars
  /\ UNCHANGED fnVars

\* Page p arrives: its slugs are added, then the polite sleep.
PageOk ==
  /\ hpc = "pageFetch"
  /\ \E html \in LaterPages : slugs' = AddAll(slugs, parseListPageForSlugs(html))
  /\ hpc' = "pageSleep"
  /\ UNCHANGED <<handler, reqMethod, reqFields, excludePremieres, bearer, concurrency, pageCount, page, response,
                 nList, nMeta, failedPages>>
  /\ UNCHANGED <<mapVars, fetchVars>>
  /\ UNCHANGED fnVars

\* The sleep after page p elapses: p++.
PageSleepDone ==
  /\ hpc = "pageSleep"
  /\ GoToPage(page + 1, pageCount, slugs)
  /\ UNCHANGED <<handler, reqMethod, reqFields, excludePremieres, bearer, concurrency, pageCount, slugs, response,
                 nMeta, failedPages>>
  /\ UNCHANGED fetchVars
  /\ UNCHANGED fnVars

PageAfterFailureAbandonsLoop(p) == pageCount + 1

\* The page the loop goes to after the catch clause of a failed page: p + 1.
PageAfterFailure(p) == p + 1

\* Page p fails after its retries: the catch logs it and the loop goes on.
PageFail ==
  /\ hpc = "pageFetch"
  /\ failedPages' = failedPages \cup {page}
  /\ GoToPage(PageAfterFailure(page), pageCount, slugs)
  /\ UNCHANGED <<handler, reqMethod, reqFields, excludePremieres, bearer, concurrency, pageCount, slugs, response, nMeta>>
  /\ UNCHANGED fetchVars
  /\ UNCHANGED fnVars

\* The messages the item task records.
DetailFailedMsg(slug, err) == [text |-> "failed fetching film page for", slug |-> slug, cause |-> err.message]

TmdbErrorMsg(id, cause) == [text |-> "TMDB error for id", id |-> id, cause |-> cause]

NoTmdbIdMsg == [text |-> "tmdb_id not found on film page"]

NoBearerMsg == [text |-> "TMDB_BEARER env missing; skipped TMDB lookup"]

AfterDetailIgnoresCredential(w, film) ==
  IF Truthy(film.tmdb_id)
    THEN /\ wst' = [wst EXCEPT ![w].pc = "meta", ![w].film = film]
         /\ nMeta' = nMeta + 1
    ELSE /\ nMeta' = nMeta
         /\ wst' = [wst EXCEPT ![w].pc = "nap", ![w].film = film]

\* `if (filmResult.tmdb_id && tmdbBearer)` and its else branch: the metadata
\* lookup is issued, or the reason it is not is recorded (the Express server
\* records nothing, and its tmdbReleaseDates returns null without a credential).
AfterDetail(w, film) ==
  IF Truthy(film.tmdb_id) /\ bearer
    THEN /\ wst' = [wst EXCEPT ![w].pc = "meta", ![w].film = film]
         /\ nMeta' = nMeta + 1
    ELSE /\ nMeta' = nMeta
         /\ wst' = [wst EXCEPT ![w].pc = "nap",
                               ![w].film = IF handler = "express" THEN film
                                           ELSE IF ~Truthy(film.tmdb_id) THEN PushError(film, NoTmdbIdMsg)
                                           ELSE PushError(film, NoBearerMsg)]

\* The detail page of worker w's slug arrives: title and catalogue id.
DetailOk(w) ==
  /\ hpc = "resolving"
  /\ mapState = "awaiting"
  /\ wst[w].pc = "detail"
  /\ \E html \in DetailPages :
       LET name == extractCleanTitleFromHtml(html)
           id   == extractTmdbFromFilmHtml(html)
           f1   == IF Truthy(name) THEN [wst[w].film EXCEPT !.film_name = name] ELSE wst[w].film
           f2   == IF Truthy(id) THEN [f1 EXCEPT !.tmdb_id = id] ELSE f1
       IN AfterDetail(w, f2)
  /\ UNCHANGED <<mapState, inputs, limit, results, idx, spawned, claims, claimedBy, rejected>>
  /\ UNCHANGED <<handler, reqMethod, reqFields, excludePremieres, bearer, concurrency, hpc, pageCount, page, slugs,
                 response, nList, failedPages>>
  /\ UNCHANGED fetchVars
  /\ UNCHANGED fnVars

\* The detail fetch of worker w's slug fails after its retries.
DetailFail(w) ==
  /\ hpc = "resolving"
  /\ mapState = "awaiting"
  /\ wst[w].pc = "detail"
  /\ \E err \in FetchFailures(handler, FilmUrl(inputs[wst[w].i + 1])) :
       AfterDetail(w, IF handler = "express" THEN wst[w].film
                      ELSE PushError(wst[w].film, DetailFailedMsg(inputs[wst[w].i + 1], err)))
  /\ UNCHANGED <<mapState, inputs, limit, results, idx, spawned, claims, claimedBy, rejected>>
  /\ UNCHANGED <<handler, reqMethod, reqFields, excludePremieres, bearer, concurrency, hpc, pageCount, page, slugs,
                 response, nList, failedPages>>
  /\ UNCHANGED fetchVars
  /\ UNCHANGED fnVars

\* `excludePremieres ? [3,4,5,6] : null`, the allow-list as a set, {} for null;
\* the other two handlers have no allow-list.
allowedTypesForCountry(h, flag) == IF h = "api" /\ flag THEN {3, 4, 5, 6} ELSE {}

WithDatesDigitalTypeFromCountry(h, film, ex) ==
  IF h = "api"
    THEN [film EXCEPT !.country_release = ex.country_earliest,
                      !.country_release_type = ex.country_earliest_type,
                      !.digital_release = ex.type4_earliest_any_iso,
                      !.digital_release_type = ex.country_earliest_type]
    ELSE [film EXCEPT !.country_release = ex.country_earliest,
                      !.digital_release = ex.type4_earliest_any_iso]

\* The type fields exist in the results of api/list-release.js only.
WithDates(h, film, ex) ==
  IF h = "api"
    THEN [film EXCEPT !.country_release = ex.country_earliest,
                      !.country_release_type = ex.country_earliest_type,
                      !.digital_release = ex.type4_earliest_any_iso,
                      !.digital_release_type = ex.type4_type]
    ELSE [film EXCEPT !.country_release = ex.country_earliest,
                      !.digital_release = ex.type4_earliest_any_iso]

\* The metadata response arrives: date extraction (which may throw).
MetaOk(w) ==
  /\ hpc = "resolving"
  /\ mapState = "awaiting"
  /\ wst[w].pc = "meta"
  /\ \E json \in MetaResponses :
       LET film == wst[w].film
           done == IF ExtractThrows(json)
                     THEN IF handler = "express" THEN film
                          ELSE PushError(film, TmdbErrorMsg(film.tmdb_id.v, [text |-> "results.find is not a function"]))
                     ELSE WithDates(handler, film,
                                    ExtractorOf(handler, json, ReqCountry,
                                     allowedTypesForCountry(handler, excludePremieres)))
       IN wst' = [wst EXCEPT ![w].pc = "nap", ![w].film = done]
  /\ UNCHANGED <<mapState, inputs, limit, results, idx, spawned, claims, claimedBy, rejected>>
  /\ UNCHANGED pipeVars
  /\ UNCHANGED fetchVars
  /\ UNCHANGED fnVars

\* The metadata lookup fails after its retries.
MetaFail(w) ==
  /\ hpc = "resolving"
  /\ mapState = "awaiting"
  /\ wst[w].pc = "meta"
  /\ \E err \in FetchFailures(handler, TmdbUrl(wst[w].film.tmdb_id.v)) :
       wst' = [wst EXCEPT ![w].pc = "nap",
                          ![w].film = IF handler = "express" THEN @
                                      ELSE PushError(@, TmdbErrorMsg(@.tmdb_id.v, err.message))]
  /\ UNCHANGED <<mapState, inputs, limit, results, idx, spawned, claims, claimedBy, rejected>>
  /\ UNCHANGED pipeVars
  /\ UNCHANGED fetchVars
  /\ UNCHANGED fnVars

\* The jitter sleep at the end of the item task elapses: `return filmResult`.
NapDone(w) ==
  /\ hpc = "resolving"
  /\ mapState = "awaiting"
  /\ wst[w].pc = "nap"
  /\ wst' = [wst EXCEPT ![w].pc = "settled", ![w].out = [ok |-> TRUE, val |-> wst[w].film]]
  /\ UNCHANGED <<mapState, inputs, limit, results, idx, spawned, claims, claimedBy, rejected>>
  /\ UNCHANGED pipeVars
  /\ UNCHANGED fetchVars
  /\ UNCHANGED fnVars

SuccessResponseFailsOnItemError(h, sorted) ==
  IF \E k \in 1..Len(sorted) : "error" \in DOMAIN sorted[k]
    THEN [status |-> 500, body |-> [ok |-> FALSE, error |-> "Unexpected server error"]]
    ELSE [status |-> 200, body |-> [ok |-> TRUE, results |-> sorted]]

SuccessResponseNotSent(h, sorted) == NoResponse

\* The success response: {ok: true, results}, a bare array from the Express server.
SuccessResponse(h, sorted) ==
  IF h \in Serverless
    THEN [status |-> 200, body |-> [ok |-> TRUE, results |-> sorted]]
    ELSE [status |-> 200, body |-> [array |-> sorted]]

\* The executor has returned: sort, then the response.
Respond ==
  /\ hpc = "resolving"
  /\ mapState = "returned"
  /\ response' = SuccessResponse(handler, SortResults(handler, results))
  /\ hpc' = "responded"
  /\ UNCHANGED <<handler, reqMethod, reqFields, excludePremieres, bearer, concurrency, pageCount, page, slugs,
                 nList, nMeta, failedPages>>
  /\ UNCHANGED <<mapVars, fetchVars>>
  /\ UNCHANGED fnVars

InitPipe ==
  /\ IdleFn
  /\ IdleFetch
  /\ IdleMap
  /\ handler \in Handlers
  /\ reqMethod \in (IF handler \in Serverless THEN {"POST", "GET"} ELSE {"POST"})
  /\ reqFields \in {"given", "missing", "blank"}
  /\ excludePremieres \in (IF handler = "api" THEN BOOLEAN ELSE {FALSE})
  /\ bearer \in BOOLEAN
  /\ concurrency \in (IF handler \in Serverless THEN 0..MaxLimit ELSE {ExpressConcurrency})
  /\ hpc = "received"
  /\ pageCount = 0
  /\ page = 0
  /\ slugs = <<>>
  /\ response = NoResponse
  /\ nList = 0
  /\ nMeta = 0
  /\ failedPages = {}

NextPipe ==
  \/ HandleRequest
  \/ FirstPageFail
  \/ FirstPageOk
  \/ PageOk
  \/ PageSleepDone
  \/ PageFail
  \/ Spawn
  \/ SpawnDone
  \/ \E w \in Workers : DetailOk(w)
  \/ \E w \in Workers : DetailFail(w)
  \/ \E w \in Workers : MetaOk(w)
  \/ \E w \in Workers : MetaFail(w)
  \/ \E w \in Workers : NapDone(w)
  \/ \E w \in Workers : WorkerResume(w)
  \/ MapReturn
  \/ Respond

SpecPipe == InitPipe /\ [][NextPipe]_vars

(***************************************************************************)
(* Claims about the handler (specification SpecPipe)                       *)
(***************************************************************************)
FirstPageFailed == 1 \in failedPages

FirstPageRetrieved == nList >= 1 /\ hpc # "firstPage" /\ ~FirstPageFailed

ResponseResults ==
  IF "results" \in DOMAIN response.body THEN response.body.results
  ELSE IF "array" \in DOMAIN response.body THEN response.body.array
  ELSE <<>>

SetOf(seq) == {seq[k] : k \in 1..Len(seq)}

\* C8: when the first listing page cannot be retrieved, the request ends with a
\* failure response - from the serverless handlers {ok: false, error, detail} -
\* that carries no results, and no further listing page, no detail page and no
\* metadata lookup is ever requested.
C8_FirstPageFailureIsFatal ==
  FirstPageFailed =>
    /\ hpc = "responded"
    /\ response.status >= 500
    /\ "results" \notin DOMAIN response.body
    /\ "array" \notin DOMAIN response.body
    /\ nList = 1
    /\ nMeta = 0
    /\ mapState = "idle"
    /\ \A w \in Workers : wst[w].pc = "unborn"
    /\ handler \in Serverless =>
         /\ response.status = 502
         /\ "ok" \in DOMAIN response.body
         /\ response.body.ok = FALSE
         /\ {"error", "detail"} \subseteq DOMAIN response.body
         /\ response.body.detail \in {e.message : e \in FetchFailures(handler, ListPageUrl(1))}

\* The handler of api/list-release.js answered 502 after its first fetch failed.
C8_Witness ==
  /\ handler = "api"
  /\ FirstPageFailed
  /\ hpc = "responded"
  /\ response.status = 502

HasErrorText(r, txt) ==
  "error" \in DOMAIN r /\ \E k \in 1..Len(r.error) : r.error[k].text = txt

\* C9: once the first listing page has been retrieved no failure response is ever
\* sent, whatever fails later: the handler can always take a next step until it
\* has responded, and it responds 200, the serverless handlers with ok: true.
C9_OnlyFirstPageIsFatal ==
  FirstPageRetrieved =>
    /\ hpc # "responded" => (response = NoResponse /\ ENABLED NextPipe)
    /\ hpc = "responded" =>
         /\ response.status = 200
         /\ handler \in Serverless =>
              /\ "ok" \in DOMAIN response.body
              /\ response.body.ok = TRUE
              /\ "results" \in DOMAIN response.body
              /\ {"error", "detail"} \cap DOMAIN response.body = {}

\* Page 2 failed, one detail fetch failed, one metadata lookup failed and one
\* date extraction threw; the answer is still ok: true.
C9_Witness ==
  /\ handler = "api"
  /\ hpc = "responded"
  /\ 2 \in failedPages
  /\ response.status = 200
  /\ response.body.ok = TRUE
  /\ \E k \in 1..Len(ResponseResults) :
       HasErrorText(ResponseResults[k], "failed fetching film page for")
  /\ \E k \in 1..Len(ResponseResults) :
       /\ HasErrorText(ResponseResults[k], "TMDB error for id")
       /\ ResponseResults[k].error[1].cause = [text |-> "results.find is not a function"]

ResolvedOnce(slug) ==
  Cardinality({k \in 1..Len(ResponseResults) :
                 Get(ResponseResults[k], "film_query") = Str(slug)}) = 1

C10_State ==
  /\ hpc \in {"pageFetch", "pageSleep"} => (nList = page /\ page <= pageCount)
  /\ (hpc \in {"resolving", "responded"} /\ FirstPageRetrieved) =>
        /\ nList = (IF pageCount > 1 THEN pageCount ELSE 1)
        /\ failedPages \subseteq 2..pageCount
  /\ (hpc = "responded" /\ FirstPageRetrieved /\ ConcurrencyOf(handler) >= 1) =>
        /\ \A k \in 1..Len(slugs) : ResolvedOnce(slugs[k])
        /\ Len(ResponseResults) = Len(slugs)

\* A step in which a page fails drops no identifier and moves to the next page.
C10_Step ==
  /\ SetOf(slugs) \subseteq SetOf(slugs')
  /\ (hpc = "pageFetch" /\ failedPages' # failedPages) =>
        /\ failedPages' = failedPages \cup {page}
        /\ slugs' = slugs
        /\ page' = page + 1
        /\ IF page < pageCount
             THEN hpc' = "pageFetch" /\ nList' = nList + 1
             ELSE hpc' = "resolving" /\ inputs' = slugs

\* C10: a failing secondary page is skipped: every later page is still fetched,
\* the identifiers collected from the other pages are kept, and (with a
\* concurrency limit >= 1) each of them is resolved into one result.
C10_FailedPageIsSkipped == []C10_State /\ [][C10_Step]_vars

\* Page 2 of 3 failed; page 3 was fetched and both identifiers were resolved.
C10_Witness ==
  /\ hpc = "responded"
  /\ pageCount = 3
  /\ failedPages = {2}
  /\ nList = 3
  /\ Len(slugs) = 2
  /\ ResolvedOnce(slugs[1])
  /\ ResolvedOnce(slugs[2])

ItemTasksIdle ==
  /\ mapState = "idle"
  /\ \A w \in Workers : wst[w].pc = "unborn"
  /\ claims = <<>>
  /\ nMeta = 0

C11_State ==
  /\ hpc \in {"received", "firstPage", "pageFetch", "pageSleep"} => ItemTasksIdle
  /\ ~ItemTasksIdle =>
       /\ hpc \in {"resolving", "responded"}
       /\ FirstPageRetrieved
       /\ nList = (IF pageCount > 1 THEN pageCount ELSE 1)
       /\ inputs = slugs

\* A listing request is issued only when none is in flight (the one that was has
\* just failed, in the same step), for the page after the last one requested;
\* the identifier set changes only while no item task exists.
C11_Step ==
  /\ nList' # nList =>
       /\ nList' = nList + 1
       /\ hpc' \in {"firstPage", "pageFetch"}
       /\ hpc = "pageFetch" => failedPages' = failedPages \cup {page}
       /\ hpc' = "pageFetch" => (page' = nList' /\ page' = (IF page = 0 THEN 2 ELSE page + 1))
  /\ slugs' # slugs => ItemTasksIdle
  /\ ~ItemTasksIdle => (slugs' = slugs /\ nList' = nList)

\* C11: listing pages 2..N are requested one at a time in ascending order, no
\* item task (detail fetch or metadata lookup) starts before the last listing
\* page has been fetched or skipped, and the identifier set is never modified
\* while item tasks run.
C11_PagesBeforeItems == []C11_State /\ [][C11_Step]_vars

\* Three pages were requested, then an item task is fetching its detail page.
C11_Witness ==
  /\ pageCount = 3
  /\ nList = 3
  /\ hpc = "resolving"
  /\ Len(slugs) = 2
  /\ \E w \in Workers : wst[w].pc = "detail"

Distinct(seq) == \A j, k \in 1..Len(seq) : j # k => seq[j] # seq[k]

\* The item tasks started for slug: the claimed positions of the executor's
\* inputs that hold it.
TasksFor(slug) ==
  {i \in DOMAIN claims : inputs[i + 1] = slug /\ claims[i] >= 1}

SuccessSent == hpc = "responded" /\ response.status = 200

\* C12: an identifier occurring on several listing pages, or several times on
\* one, is collected once and resolved by one item task; in a successful
\* response the film_query values are pairwise distinct and there are as many
\* results as distinct identifiers collected.
C12_DuplicatesCollapsed ==
  /\ Distinct(slugs)
  /\ ~ItemTasksIdle =>
       \A slug \in SetOf(slugs) :
         /\ Cardinality(TasksFor(slug)) <= 1
         /\ \A i \in TasksFor(slug) : claims[i] = 1
  /\ SuccessSent =>
       /\ Len(ResponseResults) = Cardinality(SetOf(slugs))
       /\ \A j, k \in 1..Len(ResponseResults) :
            (/\ j # k
             /\ "film_query" \in DOMAIN ResponseResults[j]
             /\ "film_query" \in DOMAIN ResponseResults[k])
              => ResponseResults[j].film_query # ResponseResults[k].film_query
       /\ ConcurrencyOf(handler) >= 1 =>
            \A slug \in SetOf(slugs) :
              /\ Cardinality(TasksFor(slug)) = 1
              /\ ResolvedOnce(slug)

\* "a" came from one page, then a later page listed "b", "a" and " b": the
\* response holds one result for each of the two identifiers.
C12_Witness ==
  /\ SuccessSent
  /\ slugs = <<"a", "b">>
  /\ Len(ResponseResults) = 2
  /\ ResolvedOnce("a")
  /\ ResolvedOnce("b")

Count(seq, x) == Cardinality({k \in 1..Len(seq) : seq[k] = x})

\* seq is in the comparator's order, the never assigned slots last.
Sorted(h, seq) ==
  \A j, k \in 1..Len(seq) :
    j < k => /\ seq[j] = Hole => seq[k] = Hole
             /\ (seq[j] # Hole /\ seq[k] # Hole) => Compare(h, seq[k], seq[j]) >= 0

C13_State ==
  SuccessSent =>
    /\ mapState = "returned"
    /\ \A w \in Workers : wst[w].pc \in {"unborn", "exit"}
    /\ \A i \in DOMAIN claims : claims[i] >= 1 => results[i] # Hole
    /\ Len(ResponseResults) = Len(inputs)
    /\ \A x \in SetOf(ResponseResults) \cup SetOf(ArrayToSeq(results)) :
         Count(ResponseResults, x) = Count(ArrayToSeq(results), x)
    /\ Sorted(handler, ResponseResults)

\* A response, once sent, is never replaced or extended.
C13_Step == response # NoResponse => response' = response

\* C13: the success response is sent only after every item task has settled and
\* the sort has completed: it holds all the results, sorted, and is sent once.
C13_ResponseIsCompleteAndSorted == []C13_State /\ [][C13_Step]_vars

\* Two results were produced in the other order than the one they are sent in.
C13_Witness ==
  /\ SuccessSent
  /\ Len(ResponseResults) = 2
  /\ results[0] # Hole
  /\ results[1] # Hole
  /\ ResponseResults[1] = results[1]
  /\ ResponseResults[2] = results[0]

\* Why a film carries no metadata lookup is recorded in its error list.
SkipRecorded(f) ==
  /\ ~Truthy(f.tmdb_id) => HasErrorText(f, NoTmdbIdMsg.text)
  /\ (Truthy(f.tmdb_id) /\ ~bearer) => HasErrorText(f, NoBearerMsg.text)

C14_State ==
  /\ \A w \in Workers : wst[w].pc = "meta" => (bearer /\ Truthy(wst[w].film.tmdb_id))
  /\ nMeta > 0 => bearer
  /\ rejected = {}
  /\ hpc \in {"resolving", "responded"} =>
       \A i \in DOMAIN results : results[i] # Hole => "film_query" \in DOMAIN results[i]
  /\ handler \in Serverless =>
       /\ \A w \in Workers : wst[w].pc \in {"nap", "settled"} => SkipRecorded(wst[w].film)
       /\ SuccessSent =>
            \A k \in 1..Len(ResponseResults) :
              ResponseResults[k] # Hole => SkipRecorded(ResponseResults[k])

\* A lookup is issued by the step that ends the same task's detail fetch.
C14_Step ==
  /\ nMeta' # nMeta =>
       /\ nMeta' = nMeta + 1
       /\ \E w \in Workers : wst[w].pc = "detail" /\ wst'[w].pc = "meta"
  /\ \A w \in Workers :
       (wst'[w].pc = "meta" /\ wst[w].pc # "meta") => (wst[w].pc = "detail" /\ nMeta' = nMeta + 1)

\* C14: the metadata lookup of an identifier is issued only after its detail
\* fetch has finished, and only if a catalogue id was found and a credential is
\* configured; a missing id or credential is recorded in the item's error list
\* and the task still returns a normal FilmResult.
C14_LookupOnlyWithIdAndCredential == []C14_State /\ [][C14_Step]_vars

\* One item was looked up and got its dates; the other had no catalogue id.
C14_Witness ==
  /\ handler = "part001"
  /\ SuccessSent
  /\ nMeta = 1
  /\ \E k \in 1..Len(ResponseResults) : Truthy(Get(ResponseResults[k], "country_release"))
  /\ \E k \in 1..Len(ResponseResults) :
       /\ ResponseResults[k] # Hole
       /\ ~Truthy(ResponseResults[k].tmdb_id)
       /\ HasErrorText(ResponseResults[k], NoTmdbIdMsg.text)

\* C15: with no catalogue credential configured no request is ever sent to the
\* metadata catalogue, the request still ends successfully (ok: true in the
\* object form), and every item for which a catalogue id was found carries an
\* error message recording that the lookup was skipped.
C15_NoCredentialSkipsCatalogue ==
  ~bearer =>
    /\ nMeta = 0
    /\ \A w \in Workers : wst[w].pc # "meta"
    /\ (hpc = "responded" /\ FirstPageRetrieved) =>
         /\ response.status = 200
         /\ handler \in Serverless => response.body.ok = TRUE
         /\ \A k \in 1..Len(ResponseResults) :
              (ResponseResults[k] # Hole /\ Truthy(ResponseResults[k].tmdb_id))
                => HasErrorText(ResponseResults[k], NoBearerMsg.text)

DetailFailureRecorded(f) == HasErrorText(f, "failed fetching film page for")

\* A FilmResult whose detail fetch failed: the failure is in its own error
\* list, and it has no catalogue id and no dates.
FailedDetailShape(f) ==
  /\ \E k \in 1..Len(f.error) :
       f.error[k].text = "failed fetching film page for" /\ Str(f.error[k].slug) = f.film_query
  /\ ~Truthy(f.tmdb_id)
  /\ ~Truthy(f.country_release)
  /\ ~Truthy(f.digital_release)

C16_State ==
  handler \in Serverless =>
    /\ \A w \in Workers :
         (wst[w].pc \in {"meta", "nap", "settled"} /\ DetailFailureRecorded(wst[w].film))
           => FailedDetailShape(wst[w].film)
    /\ \A i \in DOMAIN results :
         (results[i] # Hole /\ DetailFailureRecorded(results[i])) => FailedDetailShape(results[i])
    /\ SuccessSent =>
         \A k \in 1..Len(ResponseResults) :
           (ResponseResults[k] # Hole /\ DetailFailureRecorded(ResponseResults[k]))
             => FailedDetailShape(ResponseResults[k])

\* The step in which the detail fetch of worker w's identifier fails touches no
\* other task and no stored result; the task itself goes on without a lookup.
C16_Step ==
  \A w \in Workers :
    DetailFail(w) =>
      /\ \A v \in Workers \ {w} : wst'[v] = wst[v]
      /\ results' = results
      /\ inputs' = inputs
      /\ nMeta' = nMeta
      /\ wst'[w].pc = "nap"
      /\ handler \in Serverless =>
           (DetailFailureRecorded(wst'[w].film) /\ FailedDetailShape(wst'[w].film))

\* C16: when the detail fetch of one identifier fails after its retries, the
\* other identifiers' FilmResults are untouched by it, and the failing
\* identifier's FilmResult has a non-empty error list and neither catalogue id
\* nor dates.
C16_DetailFailureIsolated == []C16_State /\ [][C16_Step]_vars

\* One detail fetch failed; the other identifier got its catalogue id and dates.
C16_Witness ==
  /\ handler = "api"
  /\ SuccessSent
  /\ Len(ResponseResults) = 2
  /\ \E j, k \in 1..2 :
       /\ j # k
       /\ DetailFailureRecorded(ResponseResults[j])
       /\ FailedDetailShape(ResponseResults[j])
       /\ "error" \notin DOMAIN ResponseResults[k]
       /\ Truthy(ResponseResults[k].tmdb_id)
       /\ Truthy(ResponseResults[k].country_release)
       /\ Truthy(ResponseResults[k].digital_release)

HasAnyError(r) == "error" \in DOMAIN r /\ Len(r.error) >= 1

\* C17: in every FilmResult of a successful response, whenever the catalogue id
\* or one of the two release dates is absent, the error list holds a message
\* explaining why.
C17_AbsenceIsExplained ==
  SuccessSent =>
    \A k \in 1..Len(ResponseResults) :
      LET r == ResponseResults[k] IN
        (\/ ~Truthy(Get(r, "tmdb_id"))
         \/ ~Truthy(Get(r, "country_release"))
         \/ ~Truthy(Get(r, "digital_release")))
          => HasAnyError(r)

(***************************************************************************)
(* Claims about the date extraction (specification SpecDates)              *)
(***************************************************************************)
SetMin(S) == CHOOSE x \in S : \A y \in S : x <= y

\* A call of extractDatesFromJsonWithTypes was made.
TypedCall == dcall # NoCall /\ dcall.h = "api"

\* The release_dates of the target-country entry (the first one of that country).
TargetEvents(json, c) ==
  IF "results" \notin DOMAIN json THEN <<>>
  ELSE LET ks == {k \in 1..Len(json.results) : Upper(json.results[k].iso_3166_1) = Upper(c)}
       IN IF ks = {} THEN <<>> ELSE json.results[SetMin(ks)].release_dates

\* The event's type is a member of the allow-list.
InAllowList(rd, a) == rdType(rd) # Null /\ rdType(rd).v \in a

\* The dates of the target entry's dated events that pass the allow-list
\* (every dated event when no allow-list is given).
QualifyingCountryDates(json, c, a) ==
  LET rds == TargetEvents(json, c) IN
    {rds[k].release_date.ymd :
       k \in {j \in 1..Len(rds) : HasIsoDate(rds[j]) /\ (a = {} \/ InAllowList(rds[j], a))}}

\* The dates of the dated type-4 events of all entries.
DigitalDates(json) ==
  IF "results" \notin DOMAIN json THEN {}
  ELSE UNION {LET rds == json.results[e].release_dates IN
                {rds[k].release_date.ymd :
                   k \in {j \in 1..Len(rds) : HasIsoDate(rds[j]) /\ rdType(rds[j]) = Num(4)}} :
              e \in 1..Len(json.results)}

\* C18: the country result, when present, is the minimum date over the
\* qualifying dated events of the target-country entry, and the digital result,
\* when present, the minimum over the type-4 events of all entries; the
\* catalogue's example gives 10-04-2021 (type 4) and 01-03-2021 (type 4).
C18_ResultsAreMinima ==
  TypedCall =>
    LET cd == QualifyingCountryDates(djson, dcall.country, dcall.allowed)
        dd == DigitalDates(djson)
    IN /\ Truthy(dcall.out.country_earliest) =>
            (cd # {} /\ dcall.out.country_earliest = isoToDDMM(SetMin(cd)))
       /\ Truthy(dcall.out.type4_earliest_any_iso) =>
            (dd # {} /\ dcall.out.type4_earliest_any_iso = isoToDDMM(SetMin(dd)))
       /\ (djson = ExampleJson /\ dcall.country = "US" /\ dcall.allowed = {}) =>
            dcall.out = [country_earliest |-> DateStr(10, 4, 2021),
                         country_earliest_type |-> Num(4),
                         type4_earliest_any_iso |-> DateStr(1, 3, 2021),
                         type4_type |-> Num(4)]

\* C19: with an allow-list, only events whose type is a member of it count
\* toward the country date, whatever the shape of the upstream events (a
\* missing or non-numeric type included): the event that gives the country
\* result has a type in the allow-list; the example with allow-list [3] gives
\* 01-05-2021 (type 3) and leaves the digital result at 01-03-2021.
C19_AllowListRespected ==
  (TypedCall /\ dcall.allowed # {}) =>
    /\ Truthy(dcall.out.country_earliest) =>
         /\ dcall.out.country_earliest_type # Null
         /\ dcall.out.country_earliest_type.v \in dcall.allowed
    /\ (djson = ExampleJson /\ dcall.country = "US" /\ dcall.allowed = {3}) =>
         dcall.out = [country_earliest |-> DateStr(1, 5, 2021),
                      country_earliest_type |-> Num(3),
                      type4_earliest_any_iso |-> DateStr(1, 3, 2021),
                      type4_type |-> Num(4)]

\* C20: the digital result depends on the metadata response only: any other
\* target country and any other allow-list give the same digital_release and
\* digital_release_type for it.
C20_DigitalIndependentOfArguments ==
  TypedCall =>
    \A c \in Countries, a \in AllowLists :
      LET other == extractDatesFromJsonWithTypes(djson, c, a) IN
        /\ other.type4_earliest_any_iso = dcall.out.type4_earliest_any_iso
        /\ other.type4_type = dcall.out.type4_type

\* A call for a country the response does not list, with an allow-list that
\* excludes type 4, still returns the example's digital date.
C20_Witness ==
  /\ djson = ExampleJson
  /\ TypedCall
  /\ dcall.country = "FR"
  /\ dcall.allowed = {3}
  /\ dcall.out.country_earliest = Null
  /\ dcall.out.type4_earliest_any_iso = DateStr(1, 3, 2021)
  /\ dcall.out.type4_type = Num(4)

(***************************************************************************)
(* Claims about the sort (specification SpecSort)                          *)
(***************************************************************************)
Absent(d) == d.t \in {"null", "undef"}

\* A DD-MM-YYYY date as a number that grows with the calendar.
Calendar(d) == d.y * 10000 + d.m * 100 + d.d

\* Date x is not after date y, an absent date being after every present one.
DateLeq(x, y) == Absent(y) \/ (~Absent(x) /\ Calendar(x) <= Calendar(y))

DateEq(x, y) == DateLeq(x, y) /\ DateLeq(y, x)

\* The earlier of the two dates of a result (absent when it has neither).
EarlierDate(r) ==
  LET c == Get(r, "country_release")
      d == Get(r, "digital_release")
  IN IF DateLeq(c, d) THEN c ELSE d

\* The display name of a is not sorted after that of b.
NameLeq(a, b) == NameRank(NameOf(a)) <= NameRank(NameOf(b))

Emitted(seq) == SelectSeq(seq, LAMBDA r : r # Hole)

\* C21: Variant B (api/list-release.js): for every adjacent pair (a, b) of the
\* emitted results key(a) <= key(b), the key being the earlier of the two
\* dates and an absent date the maximum key, and with equal keys the name of a
\* does not sort after that of b; 01-01-2020, 05-05-2019 and null come out as
\* 2019, 2020, null.
C21_VariantBOrder ==
  (scall # NoCall /\ scall.h = "api") =>
    LET out == Emitted(scall.out) IN
      /\ Len(out) = Len(Emitted(ArrayToSeq(sarr)))
      /\ \A k \in 1..(Len(out) - 1) :
           /\ DateLeq(EarlierDate(out[k]), EarlierDate(out[k + 1]))
           /\ DateEq(EarlierDate(out[k]), EarlierDate(out[k + 1])) => NameLeq(out[k], out[k + 1])

ExampleResult(name, c) ==
  [film_query |-> Str("q"), film_name |-> Str(name), tmdb_id |-> Num(603),
   country_release |-> c, digital_release |-> Null]

\* The example: 2020, 2019 and a result with no date whose name sorts first.
C21_Witness ==
  /\ scall # NoCall
  /\ scall.h = "api"
  /\ ArrayToSeq(sarr) = <<ExampleResult("b", DateStr(1, 1, 2020)),
                          ExampleResult("b", DateStr(5, 5, 2019)),
                          ExampleResult("a", Null)>>
  /\ scall.out = <<ExampleResult("b", DateStr(5, 5, 2019)),
                   ExampleResult("b", DateStr(1, 1, 2020)),
                   ExampleResult("a", Null)>>

\* a is not after b in the order of Variant A: country date, then digital date,
\* then name, absent dates last.
VariantALeq(a, b) ==
  LET ca == Get(a, "country_release")
      cb == Get(b, "country_release")
      da == Get(a, "digital_release")
      db == Get(b, "digital_release")
  IN /\ DateLeq(ca, cb)
     /\ DateEq(ca, cb) => DateLeq(da, db)
     /\ (DateEq(ca, cb) /\ DateEq(da, db)) => NameLeq(a, b)

\* C22: Variant A (unnamed/part_001 and server/index.js): the emitted results
\* are ordered by country_release ascending with absent last; among results
\* with equal country_release, those that both lack it included, by
\* digital_release ascending with absent last; among results equal on both
\* dates, by film_name ascending.
C22_VariantAOrder ==
  (scall # NoCall /\ scall.h \in {"part001", "express"}) =>
    LET out == Emitted(scall.out) IN
      /\ Len(out) = Len(Emitted(ArrayToSeq(sarr)))
      /\ \A k \in 1..(Len(out) - 1) : VariantALeq(out[k], out[k + 1])


(***************************************************************************)
(* Reproducible output (specification SpecPipe)                            *)
(***************************************************************************)
\* The position in the listing of the slug a result belongs to.
SlugPos(r) == CHOOSE k \in 1..Len(slugs) : Get(r, "film_query") = Str(slugs[k])

\* C23: with a concurrency limit of at least one, the emitted array is fixed by
\* the per-slug results alone, whatever the interleaving of the item tasks:
\* slot i of the results array holds the result of the i-th listed slug, and the
\* response holds exactly these results in the comparator's order, results the
\* comparator does not separate in listing order.
C23_EmittedFixedBySlugResults ==
  (SuccessSent /\ limit >= 1) =>
    /\ inputs = slugs
    /\ \A i \in DOMAIN results :
         /\ results[i] # Hole
         /\ Get(results[i], "film_query") = Str(slugs[i + 1])
    /\ Len(ResponseResults) = Len(slugs)
    /\ SetOf(ResponseResults) = {results[i] : i \in DOMAIN results}
    /\ \A j, k \in 1..Len(ResponseResults) :
         j < k =>
           LET a == ResponseResults[j]
               b == ResponseResults[k]
           IN /\ Compare(handler, b, a) >= 0
              /\ Compare(handler, a, b) = 0 => SlugPos(a) < SlugPos(b)

\* Two item tasks ran on different workers, their results are not separated by
\* the comparator, and the response lists them in listing order.
C23_Witness ==
  /\ SuccessSent
  /\ limit >= 2
  /\ Len(slugs) = 2
  /\ claimedBy[0] # claimedBy[1]
  /\ Compare(handler, results[0], results[1]) = 0
  /\ ResponseResults = <<results[0], results[1]>>

(***************************************************************************)
(* Request validation (specification SpecPipe)                             *)
(***************************************************************************)
\* C24: a request whose username, listname or country is missing or blank is
\* answered with a client-error response and causes no outbound request: no
\* listing page, no detail page and no metadata lookup is ever requested.
C24_InvalidRequestRejected ==
  (reqFields # "given" /\ hpc # "received") =>
    /\ hpc = "responded"
    /\ response.status \in {400, 405}
    /\ nList = 0
    /\ nMeta = 0
    /\ mapState = "idle"

(***************************************************************************)
(* The excludePremieres flag (specification SpecDates)                     *)
(***************************************************************************)
\* The event is of the premiere type (type code 1 of the catalogue).
IsPremiere(rd) == rdType(rd) = Num(1)

\* The dates of the target entry's dated events, the premieres left out when
\* the flag is set.
DatesExceptPremieres(json, c, flag) ==
  LET rds == TargetEvents(json, c) IN
    {rds[k].release_date.ymd :
       k \in {j \in 1..Len(rds) : HasIsoDate(rds[j]) /\ ~(flag /\ IsPremiere(rds[j]))}}

\* C25: with excludePremieres set, the country date is the earliest date of the
\* target entry's events that are not premieres - events of every other type
\* count - and without it the earliest date of all its events; the digital date
\* is the same in both cases.
C25_ExactlyPremieresExcluded ==
  (TypedCall /\ \E flag \in BOOLEAN : dcall.allowed = allowedTypesForCountry("api", flag)) =>
    LET flag  == dcall.allowed = allowedTypesForCountry("api", TRUE)
        dates == DatesExceptPremieres(djson, dcall.country, flag)
        other == extractDatesFromJsonWithTypes(djson, dcall.country,
                                               allowedTypesForCountry("api", ~flag))
    IN /\ dcall.out.country_earliest = IF dates = {} THEN Null ELSE isoToDDMM(SetMin(dates))
       /\ dcall.out.type4_earliest_any_iso = other.type4_earliest_any_iso
       /\ dcall.out.type4_type = other.type4_type

(***************************************************************************)
(* Outbound connection bound (specification SpecPipe)                      *)
(***************************************************************************)
\* Outbound requests in flight: the listing-page fetch of the handler and the
\* detail-page and metadata requests of the item tasks.
OutboundInFlight ==
  (IF hpc \in {"firstPage", "pageFetch"} THEN 1 ELSE 0)
    + Cardinality({w \in Workers : wst[w].pc \in {"detail", "meta"}})

C26_State ==
  OutboundInFlight <= (IF ConcurrencyOf(handler) >= 1 THEN ConcurrencyOf(handler) ELSE 1)

\* An item task issues its metadata lookup in the step in which its own detail
\* request settles, and at most one task does so in a step.
C26_Step ==
  /\ nMeta' \in {nMeta, nMeta + 1}
  /\ \A w \in Workers :
       (wst'[w].pc = "meta" /\ wst[w].pc # "meta") =>
         /\ wst[w].pc = "detail"
         /\ nMeta' = nMeta + 1
         /\ OutboundInFlight' = OutboundInFlight

\* C26: at every moment of a request at most max(1, concurrency limit) outbound
\* requests (listing pages, detail pages and metadata lookups together) are in
\* flight, and the metadata request of an item task is issued only when its
\* detail request has settled.
C26_OutboundBounded == []C26_State /\ [][C26_Step]_vars

\* Limit 2: a detail request and a metadata lookup of two tasks in flight at once.
C26_Witness ==
  /\ hpc = "resolving"
  /\ ConcurrencyOf(handler) = 2
  /\ OutboundInFlight = 2
  /\ \E v, w \in Workers : wst[v].pc = "detail" /\ wst[w].pc = "meta"

(***************************************************************************)
(* The page count (specification SpecPipe)                                 *)
(***************************************************************************)
\* C27: the page count taken from a retrieved first page is an integer of at
\* least 1, and the handler only ever fetches pages 2..pageCount after it.
C27_PageCountAtLeastOne ==
  FirstPageRetrieved =>
    /\ pageCount >= 1
    /\ hpc \in {"pageFetch", "pageSleep"} => (2 <= page /\ page <= pageCount)

(***************************************************************************)
(* Identifier collection (specification SpecParse)                         *)
(***************************************************************************)
\* The first element of the page whose trimmed attribute value is v.
FirstAttr(v) == SetMin({k \in 1..Len(phtml.items) : Trim(phtml.items[k]) = v})

\* C28: every call of parseListPageForSlugs on a page returns the trimmed
\* attribute values of the page - each non-empty one once, none of them empty -
\* in the order of their first occurrences, and two calls on the same page
\* return the same sequence.
C28_TrimmedDistinctInOrder ==
  \A c \in 1..Len(pcalls) :
    LET out == pcalls[c] IN
      /\ \A k \in 1..Len(out) :
           /\ out[k] # ""
           /\ \E j \in 1..Len(phtml.items) : Trim(phtml.items[j]) = out[k]
      /\ \A j \in 1..Len(phtml.items) :
           Trim(phtml.items[j]) # "" => Trim(phtml.items[j]) \in SetOf(out)
      /\ \A j, k \in 1..Len(out) : j < k => (out[j] # out[k] /\ FirstAttr(out[j]) < FirstAttr(out[k]))
      /\ out = pcalls[1]

(***************************************************************************)
(* Termination (specification SpecLive)                                    *)
(***************************************************************************)
\* A call of the fetcher, or an invocation of the handler with its executor and
\* item tasks, under the assumption that every pending attempt settles, every
\* sleep elapses and every continuation that is ready is run: a step that stays
\* possible is eventually taken. A listing of the model has at most two slugs,
\* so the limits above 2 are left to the Express server's.
InitLive == InitFetch \/ (InitPipe /\ ConcurrencyOf(handler) \in {0, 1, 2, ExpressConcurrency})

NextLive == NextFetch \/ NextPipe

SpecLive == InitLive /\ [][NextLive]_vars /\ WF_vars(NextLive)

\* The fetch call has returned or failed, the executor has returned and each
\* worker it started has exited, and the handler has sent its response.
Terminated ==
  /\ fpc \in {"idle", "returned", "failed"}
  /\ mapState \in {"idle", "returned"}
  /\ \A w \in Workers : wst[w].pc \in {"unborn", "exit"}
  /\ hpc \in {"idle", "responded"}

\* C29: each fetch call eventually returns or fails, every worker eventually
\* exits, and each invocation of the handler eventually sends a response.
C29_Termination == <>Terminated

\* An invocation that lost a listing page and resolved two slugs, with a
\* metadata lookup, has sent its response and all its workers have exited.
C29_Witness ==
  /\ hpc = "responded"
  /\ response.status = 200
  /\ failedPages # {}
  /\ Len(slugs) = 2
  /\ nMeta >= 1
  /\ mapState = "returned"
  /\ \A w \in Workers : wst[w].pc \in {"unborn", "exit"}
  /\ \E w \in Workers : wst[w].pc = "exit"

(***************************************************************************)
(* Backoff (specification SpecFetch)                                       *)
(***************************************************************************)
\* Largest attempt number the shape of the delays is compared for.
MaxBackoffK == 6

\* Base and cap of a retry path: the 403/429 path of the raw fetcher, or the
\* error path of a variant.
BaseOf(v) == CASE v = "raw" -> 300 [] v = "serverless" -> 400 [] OTHER -> 500

CapOf(v, rateLimited) == IF v = "raw" /\ rateLimited THEN 4000 ELSE 8000

\* On each retry path the delay after attempt k is min(cap, base * 2^k) with a
\* positive jitter bound, at most 8000 ms, and not below the delay after k - 1.
C30_PathShape ==
  \A v \in FetchVariants, rl \in BOOLEAN, k \in 1..MaxBackoffK :
    /\ Backoff(v, rl, k).ms = Min(CapOf(v, rl), BaseOf(v) * Pow2(k))
    /\ Backoff(v, rl, k).ms <= 8000
    /\ Backoff(v, rl, k).jitterBelow \in {200, 300}
    /\ k > 1 => Backoff(v, rl, k).ms >= Backoff(v, rl, k - 1).ms

\* A call that has ended slept once after each attempt but the last.
C30_State ==
  /\ C30_PathShape
  /\ Settled => sleeps = attempt - 1
  /\ fpc = "sleeping" => sleeps = attempt

\* The step that starts a sleep: after failed attempt k = attempt < maxAttempts,
\* for the delay of the path taken, not below the previous delay of the call;
\* the step that ends the call starts none.
C30_Step ==
  /\ (fpc = "request" /\ fpc' = "sleeping") =>
       LET o  == outcomes'[Len(outcomes')]
           rl == o.kind = "status" /\ o.status \in {403, 429}
       IN /\ ~IsOk(o)
          /\ 1 <= attempt
          /\ attempt < maxAttempts
          /\ sleeps' = sleeps + 1
          /\ fbackoff'.ms = Min(CapOf(fvariant, rl), BaseOf(fvariant) * Pow2(attempt))
          /\ fbackoff'.ms >= fbackoff.ms
          /\ fbackoff'.ms <= 8000
  /\ fpc' \in {"returned", "failed"} => sleeps' = sleeps

\* C30: in every fetcher variant the delay slept after the k-th failed attempt,
\* 1 <= k < maxAttempts, is min(cap, base * 2^k) for the retry path taken plus a
\* jitter below a fixed bound; it does not decrease with k, never exceeds 8000
\* ms, and no delay is slept after the final failed attempt.
C30_Backoff == []C30_State /\ [][C30_Step]_vars

\* The raw fetcher sleeps for the third time, 2400 ms, after a rate-limited
\* answer and an aborted attempt among its three failures.
C30_Witness ==
  /\ fvariant = "raw"
  /\ fpc = "sleeping"
  /\ sleeps = 3
  /\ fbackoff.ms = 2400
  /\ \E j \in 1..Len(outcomes) : outcomes[j] = [kind |-> "status", status |-> 429]
  /\ \E j \in 1..Len(outcomes) : outcomes[j].kind = "abort"

(***************************************************************************)
(* The digital release type (specification SpecPipe)                       *)
(***************************************************************************)
\* The film objects of the invocation: those the item tasks are working on,
\* those stored in the results array, and those of the response.
FilmResults ==
  {wst[w].film : w \in {v \in Workers : wst[v].film # Hole}}
    \cup {results[i] : i \in {j \in DOMAIN results : results[j] # Hole}}
    \cup {r \in SetOf(ResponseResults) : r # Hole}

\* C31: in every film result of the type-aware handler, digital_release_type
\* is 4 exactly when digital_release is present, and null exactly when it is
\* absent.
C31_DigitalTypeMatchesDate ==
  handler = "api" =>
    \A f \in FilmResults :
      "digital_release_type" \in DOMAIN f =>
        /\ f.digital_release_type \in {Num(4), Null}
        /\ f.digital_release_type = Num(4) <=> Truthy(f.digital_release)
        /\ f.digital_release_type = Null <=> f.digital_release = Null

\* A response of the type-aware handler with a dated digital release of type 4
\* in one result and neither date nor type in another.
C31_Witness ==
  /\ handler = "api"
  /\ SuccessSent
  /\ \E r \in SetOf(ResponseResults) :
       /\ "digital_release" \in DOMAIN r
       /\ r.digital_release = DateStr(1, 3, 2021)
       /\ r.digital_release_type = Num(4)
  /\ \E r \in SetOf(ResponseResults) :
       /\ "digital_release" \in DOMAIN r
       /\ Truthy(r.country_release)
       /\ r.digital_release = Null
       /\ r.digital_release_type = Null

(***************************************************************************)
(* Degraded metadata (specification SpecDates)                             *)
(***************************************************************************)
\* C32: on every response - missing, without entries, without an entry of the
\* target country (compared without regard to case), with entries that have no
\* events, with events that have no date or a malformed one - a call without an
\* allow-list returns the earliest date of the well-formed events of the target
\* entry, and of the type-4 events of all entries, and an absent field where
\* there is none.
C32_DegradedDataSkipped ==
  (dcall # NoCall /\ dcall.allowed = {}) =>
    LET cd == QualifyingCountryDates(djson, dcall.country, {})
        dd == DigitalDates(djson)
    IN /\ dcall.out.country_earliest = IF cd = {} THEN Null ELSE isoToDDMM(SetMin(cd))
       /\ dcall.out.type4_earliest_any_iso = IF dd = {} THEN Null ELSE isoToDDMM(SetMin(dd))

(***************************************************************************)
(* Every collected slug is resolved (specification SpecPipe)               *)
(***************************************************************************)
\* C33: whatever the configured concurrency limit, every position of the
\* results of a success response holds the film result of a collected slug,
\* each slug's exactly once: no slug is left unprocessed, no position unfilled.
C33_EverySlugResolved ==
  SuccessSent =>
    /\ Len(ResponseResults) = Len(slugs)
    /\ \A k \in 1..Len(ResponseResults) :
         /\ ResponseResults[k] # Hole
         /\ "film_query" \in DOMAIN ResponseResults[k]
    /\ \A j \in 1..Len(slugs) :
         Cardinality({k \in 1..Len(ResponseResults) :
                        Get(ResponseResults[k], "film_query") = Str(slugs[j])}) = 1

(***************************************************************************)
(* One response per invocation (specification SpecPipe)                    *)
(***************************************************************************)
\* The handler has returned exactly when a response is recorded, and an
\* invocation that can take no further step has sent its response.
C34_State ==
  /\ hpc = "responded" <=> response # NoResponse
  /\ ~ENABLED NextPipe => hpc = "responded"

\* A response is sent by the step in which the handler returns, and nothing
\* happens after it: no second response, no further request, no further task.
C34_Step ==
  /\ response' # response => (response = NoResponse /\ hpc # "responded" /\ hpc' = "responded")
  /\ hpc = "responded" => UNCHANGED <<pipeVars, mapVars>>

\* C34: on every path - wrong method, validation failure, first-page failure,
\* success, unexpected exception - exactly one response is sent: none is sent
\* twice and no invocation ends without one.
C34_ExactlyOneResponse == []C34_State /\ [][C34_Step]_vars

\* The Express server answers 500 from its outer catch clause, the only place
\* where its failed first-page fetch is handled.
C34_Witness ==
  /\ handler = "express"
  /\ hpc = "responded"
  /\ response.status = 500
  /\ FirstPageFailed

(***************************************************************************)
(* Credential confinement (specification SpecFetch)                        *)
(***************************************************************************)
\* C35: every request in flight that carries the bearer credential is
\* addressed to the metadata catalogue's host, whether or not a relay endpoint
\* is configured, and a request for a listing or detail page never carries it.
C35_CredentialConfined ==
  fpc = "request" =>
    LET r == AttemptRequest(fvariant, furl, fproxy) IN
      /\ r.authorization => r.host = "api.themoviedb.org"
      /\ HostOf(furl) = "letterboxd.com" => ~r.authorization

(***************************************************************************)
(* The error field of a film result (specification SpecPipe)               *)
(***************************************************************************)
HasError(f) == "error" \in DOMAIN f

\* The error list is a non-empty list of messages, and a detail-fetch failure
\* comes before the message about the missing catalogue id.
ErrorListShape(f) ==
  /\ Len(f.error) >= 1
  /\ \A k \in 1..Len(f.error) : f.error[k].text # ""
  /\ \A j, k \in 1..Len(f.error) :
       (f.error[j].text = "failed fetching film page for" /\ f.error[k].text = NoTmdbIdMsg.text)
         => j < k

\* A film result whose item task is over: it has no error exactly when it has a
\* catalogue id, a credential is configured and no lookup failure was recorded.
FinishedShape(f) ==
  /\ ~HasError(f) => (Truthy(f.tmdb_id) /\ bearer)
  /\ HasError(f) =>
       /\ ErrorListShape(f)
       /\ \/ ~Truthy(f.tmdb_id) /\ f.error[Len(f.error)] = NoTmdbIdMsg
          \/ Truthy(f.tmdb_id) /\ ~bearer /\ f.error = <<NoBearerMsg>>
          \/ Truthy(f.tmdb_id) /\ bearer /\ Len(f.error) = 1
               /\ f.error[1].text = "TMDB error for id"
  /\ DetailFailureRecorded(f) => (~Truthy(f.tmdb_id) /\ Len(f.error) = 2)

C36_State ==
  handler \in Serverless =>
    /\ \A w \in Workers :
         /\ wst[w].pc \in {"nap", "settled"} => FinishedShape(wst[w].film)
         /\ wst[w].pc = "meta" =>
              /\ ~HasError(wst[w].film)
              /\ Truthy(wst[w].film.tmdb_id)
              /\ bearer
              /\ \A json \in MetaResponses :
                   ~ExtractThrows(json) =>
                     ~HasError(WithDates(handler, wst[w].film,
                                         ExtractorOf(handler, json, ReqCountry,
                                           allowedTypesForCountry(handler, excludePremieres))))
    /\ \A i \in DOMAIN results : results[i] # Hole => FinishedShape(results[i])
    /\ \A k \in 1..Len(ResponseResults) :
         ResponseResults[k] # Hole => FinishedShape(ResponseResults[k])

\* The end of the lookup of worker w: a failure is recorded, and a film that
\* leaves the lookup without an error took its dates from a response.
C36_Step ==
  handler \in Serverless =>
    \A w \in Workers :
      /\ MetaFail(w) => (HasError(wst'[w].film) /\ wst'[w].film.error[1].text = "TMDB error for id")
      /\ (wst[w].pc = "meta" /\ wst'[w].pc = "nap" /\ ~HasError(wst'[w].film)) =>
           \E json \in MetaResponses :
             /\ ~ExtractThrows(json)
             /\ wst'[w].film = WithDates(handler, wst[w].film,
                                         ExtractorOf(handler, json, ReqCountry,
                                           allowedTypesForCountry(handler, excludePremieres)))

\* C36: a film result of the serverless handlers has no error field exactly
\* when its detail page was fetched, a catalogue id was found on it, a
\* credential is configured and the lookup succeeded; otherwise error is a
\* non-empty list of messages, a detail-fetch failure before the message about
\* the missing catalogue id.
C36_ErrorExactlyOnFailure == []C36_State /\ [][C36_Step]_vars

\* A response with one result without error and one whose error list holds the
\* detail-fetch failure followed by the missing-id message.
C36_Witness ==
  /\ handler \in Serverless
  /\ SuccessSent
  /\ \E r \in SetOf(ResponseResults) :
       "country_release" \in DOMAIN r /\ ~HasError(r) /\ Truthy(r.country_release)
  /\ \E r \in SetOf(ResponseResults) :
       /\ "country_release" \in DOMAIN r
       /\ HasError(r)
       /\ Len(r.error) = 2
       /\ r.error[1].text = "failed fetching film page for"
       /\ r.error[2] = NoTmdbIdMsg

(***************************************************************************)
(* Claims about the sort key (specification SpecKey)                       *)
(***************************************************************************)
\* Date a is before date b in the calendar.
Before(a, b) ==
  \/ a.y < b.y
  \/ (a.y = b.y /\ a.m < b.m)
  \/ (a.y = b.y /\ a.m = b.m /\ a.d < b.d)

\* C37: for two valid zero-padded ISO dates, the first is before the second in
\* the calendar exactly when the key of its converted form is the smaller one,
\* and the key of each date is strictly smaller than the key of an absent date.
C37_KeyOrderPreserving ==
  kcall # NoCall =>
    /\ Before(kdates[1], kdates[2]) <=> kcall.k1 < kcall.k2
    /\ kcall.k1 < kcall.absent
    /\ kcall.k2 < kcall.absent

\* The earlier date has the larger day and the larger month, and the
\* smaller key.
C37_Witness ==
  /\ kcall # NoCall
  /\ kdates[1] = [y |-> 1999, m |-> 12, d |-> 28]
  /\ kdates[2] = [y |-> 2000, m |-> 1, d |-> 1]
  /\ kcall.k1 = 19991228
  /\ kcall.k2 = 20000101
  /\ kcall.k1 < kcall.k2

(***************************************************************************)
(* Claims about the front end (specification SpecFront)                    *)
(***************************************************************************)
\* C38: whenever the results table is visible its rows are rows of the
\* response to the most recently submitted request, and when the most recent
\* submit has ended in an error the table is hidden and empty.
C38_TableShowsLatestSubmit ==
  /\ ~resultsHidden =>
       /\ tbody # <<>>
       /\ \A k \in 1..Len(tbody) : tbody[k].req = Len(submits)
  /\ (submits # <<>> /\ submits[Len(submits)].end \in {"invalid", "error"}) =>
       (resultsHidden /\ tbody = <<>>)

=============================================================================
